---------------------------- MODULE Spec2Model ----------------------------
(***************************************************************************)
(* A model of aws_region_watch (src/src/aws_region_watch/__init__.py):     *)
(* the diff engine (compare_states), the resilient client (call_mcp_tool,  *)
(* fetch_region_resources).                                                *)
(*                                                                         *)
(* Python values are modelled as follows.                                  *)
(*  - str used as a dict key / resource name: a sequence of code points,   *)
(*    so that Python's lexicographic < on str can be computed.             *)
(*  - dict[str, str]: a sequence of records [name, status] with pairwise   *)
(*    distinct names, in insertion order.                                  *)
(*  - Optional[str]: a record [some, v].                                   *)
(***************************************************************************)
EXTENDS Integers, Sequences, FiniteSets, TLC

VARIABLES
    \* ---- group_apis_by_service(items) and the lists rendered from it ----
    items,          \* argument items, as the names of the items
    groups,         \* the dict returned
    listed,         \* the groups as the markdown renderer lists them
    groupPc,        \* "idle", "call", "grouped", "listed"
    \* ---- compare_states(old, new) ----
    old,            \* argument old
    new,            \* argument new
    changes,        \* the returned dict {"added","removed","changed"}
    cmpPc,          \* "idle" | "start" (called) | "done" (returned)
    \* ---- call_mcp_tool ----
    callPc,         \* "idle" | "post" | "sleep" | "returned" | "raised"
    attempt,        \* the loop variable of `for attempt in range(MAX_RETRIES)`
    last_error,     \* the local last_error
    sleepArg,       \* the argument of the time.sleep call in progress
    callResult,     \* what call_mcp_tool returned or raised
    served,         \* history: the server's answer to each request of this call
    sleeps,         \* history: the argument of every time.sleep call of this call
    \* ---- fetch_region_resources ----
    fetchPc,        \* "idle" | "loop" | "calling" | "returned" | "raised"
    region,         \* argument region
    resource_type,  \* argument resource_type
    page,           \* the loop variable of `for page in range(1, MAX_PAGES + 1)`
    resources,      \* the local accumulating dict
    next_token,     \* the local next_token
    argsToken,      \* args.get("next_token") of the request being made
    fetchResult,    \* what fetch_region_resources returned or raised
    lastToken,      \* history: next_token of the page the server served last
    latest,         \* history: name -> its status on the latest page holding it
    pagesServed,    \* history: number of pages the server has served
    malformed,      \* history: a page served lacked "content", "result" or the
                    \* key of the resource type
    posted,         \* history: requests posted since fetch_region_resources began
    \* ---- the state store: state_dir and the call in progress ----
    storePc,        \* "idle" | "ready" | "write" | "rename" | "except" | "done" |
                    \* "loaded"
    dirExists,      \* state_dir exists
    fs,             \* the files of state_dir: path -> content
    op,             \* the call: function name, region, the dict state
    opResult,       \* what the call returned or raised
    fsBefore,       \* history: the files when the call began
    dirBefore,      \* history: whether state_dir existed when the call began
    again,          \* what the load after the call returned or raised
    \* ---- main ----
    mainPc,         \* "idle" | "global_fetch" | "global_load" | "global_save" |
                    \* "region" | "fetch" | "region_save" | "exited"
    args,           \* the parsed arguments: type, regions, format
    results,        \* {region: {type: changes}}
    is_first_run,   \* {region: {type: bool}}
    any_changes,
    region_changes, \* None, or the changes of the global region list
    region_first_run,
    current_regions,
    global_state,
    state,          \* the state dict of the region of the loop
    ri,             \* position of the loop over args.regions
    ti,             \* position of the loop over per_region_types
    stdout,         \* what print(report) has written
    exitCode,       \* the argument of sys.exit, -1 while the run goes on
    detected,       \* history: a fetched map differed from a non-empty previous one
    raisedExc,      \* history: the exception that ended the run, "" if none
    lastLoaded,     \* history: the file and content of the latest load
    fsStart,        \* history: the files of state_dir when the run began
    region_names,   \* the module's cache _region_names
    rj,             \* format_markdown_report: position of the loop over results
    lk,             \* format_markdown_report: the lookup the loop is at (1 or 2)
    displays,       \* format_markdown_report: region_display and region_long of
                    \* the regions passed
    report,         \* the string the renderer returned
    requests,       \* history: the requests get_region_names made in this run
    fetched,        \* history: the maps fetched in this run and what they were
                    \* compared with
    savedPasses,    \* history: the passes of the loop whose save has returned (0
                    \* is the global region list)
    run,            \* history: the number of this run
    baselined       \* history: the entities an earlier run persisted on their
                    \* first run

groupVars == <<items, groups, listed, groupPc>>
cmpVars   == <<old, new, changes, cmpPc>>
callVars  == <<callPc, attempt, last_error, sleepArg, callResult, served, sleeps>>
fetchVars == <<fetchPc, region, resource_type, page, resources, next_token, argsToken,
               fetchResult, lastToken, latest, pagesServed, malformed>>
storeVars == <<storePc, dirExists, fs, op, opResult, fsBefore, dirBefore, again>>
storeCallVars == <<storePc, op, opResult, fsBefore, dirBefore, again>>
mainVars  == <<mainPc, args, results, is_first_run, any_changes, region_changes,
               region_first_run, current_regions, global_state, state, ri, ti, stdout,
               exitCode, detected, raisedExc, lastLoaded, fsStart, region_names, rj, lk,
               displays, report, requests, fetched, savedPasses, run, baselined>>
renderVars == <<region_names, rj, lk, displays, report, requests>>
runVars   == <<run, baselined>>
vars      == <<posted, groupVars, cmpVars, callVars, fetchVars, storeVars, mainVars>>

-----------------------------------------------------------------------------
(* Bounds of the model *)

\* the largest number of keys of a dict passed to compare_states
MaxKeys == 3
\* the largest number of entries on one page of a resource listing
MaxPageKeys == 1

\* the runs of main over one state directory: a run and the next one
MaxRuns == 2

-----------------------------------------------------------------------------
(* Python str and dict *)

\* Resource names, as code points: "A", "AW", "Am", "X"
NAMES == {<<65>>, <<65, 87>>, <<65, 109>>, <<88>>}

STATUSES == {"isAvailableIn", "isPlannedIn"}

Min(a, b) == IF a <= b THEN a ELSE b

\* Python's a < b on str: the first differing code point decides, and a proper
\* prefix is smaller.
StrLess(a, b) ==
    \/ \E i \in 1..Min(Len(a), Len(b)) :
          /\ \A j \in 1..(i - 1) : a[j] = b[j]
          /\ a[i] < b[i]
    \/ /\ Len(a) < Len(b)
       /\ \A j \in 1..Len(a) : a[j] = b[j]

\* set(d.keys())
Keys(d) == {d[i].name : i \in DOMAIN d}

\* d[name], for name in d
Get(d, name) == d[CHOOSE i \in DOMAIN d : d[i].name = name].status

\* the dicts of at most n entries over the names N
Dicts(N, n) ==
    UNION {{d \in [1..k -> [name : N, status : STATUSES]] :
               \A i, j \in 1..k : i # j => d[i].name # d[j].name} : k \in 0..n}

\* d[name] = status: an existing key keeps its place, a new key goes last
SetItem(d, name, status) ==
    IF name \in Keys(d)
    THEN [i \in DOMAIN d |->
             IF d[i].name = name THEN [name |-> name, status |-> status] ELSE d[i]]
    ELSE Append(d, [name |-> name, status |-> status])

\* a == b on dicts: the same keys with the same values, whatever the order
DictEq(a, b) ==
    /\ Keys(a) = Keys(b)
    /\ \A n \in Keys(a) : Get(a, n) = Get(b, n)

None == [some |-> FALSE, v |-> <<>>]
Some(x) == [some |-> TRUE, v |-> x]

-----------------------------------------------------------------------------
(* Diff engine: compare_states, has_changes *)

\* the smallest str of a non-empty set
Least(S) == CHOOSE m \in S : \A x \in S : x = m \/ StrLess(m, x)

\* a sort that yields the largest first
RECURSIVE sorted_descending(_)
sorted_descending(S) ==
    IF S = {} THEN <<>>
    ELSE LET m == Least(S) IN Append(sorted_descending(S \ {m}), m)

\* sorted(S) for a set of str: the list of its elements in increasing order
RECURSIVE sorted(_)
sorted(S) ==
    IF S = {} THEN <<>>
    ELSE LET m == Least(S) IN <<m>> \o sorted(S \ {m})

\* added, built from every name of new
added_of_all_new(o, n) ==
    LET names == sorted(Keys(n))
    IN  [i \in 1..Len(names) |-> [name |-> names[i], status |-> Get(n, names[i])]]

\* lines 445-447: one entry per name of new_names - old_names, in sorted order
added_of(o, n) ==
    LET names == sorted(Keys(n) \ Keys(o))
    IN  [i \in 1..Len(names) |-> [name |-> names[i], status |-> Get(n, names[i])]]

\* line 449
removed_of(o, n) == sorted(Keys(o) \ Keys(n))

\* whether a name of both dicts goes to changed, when every name does
status_differs_always(o, n, name) == TRUE

\* line 454: if old[name] != new[name]
status_differs(o, n, name) == Get(o, name) # Get(n, name)

\* a changed entry with the two statuses exchanged
changed_entry_swapped(o, n, name) ==
    [name |-> name, old_status |-> Get(n, name), new_status |-> Get(o, name)]

\* lines 455-459: the entry appended to changed
changed_entry(o, n, name) ==
    [name |-> name, old_status |-> Get(o, name), new_status |-> Get(n, name)]

\* lines 452-459: one entry per name of old_names & new_names whose status
\* differs, in sorted order
changed_of(o, n) ==
    LET names  == sorted(Keys(o) \cap Keys(n))
        differ == SelectSeq(names, LAMBDA name : status_differs(o, n, name))
    IN  [i \in 1..Len(differ) |-> changed_entry(o, n, differ[i])]

compare_states(o, n) ==
    [added |-> added_of(o, n), removed |-> removed_of(o, n), changed |-> changed_of(o, n)]

\* bool(changes["added"] or changes["removed"] or changes["changed"]):
\* a list is true when it is not empty
has_changes(c) == Len(c.added) > 0 \/ Len(c.removed) > 0 \/ Len(c.changed) > 0

NoChanges == [added |-> <<>>, removed |-> <<>>, changed |-> <<>>]

-----------------------------------------------------------------------------
(* Resilient client: call_mcp_tool *)

MAX_RETRIES == 3
RETRY_BACKOFF_SECONDS == <<1, 2, 4>>

\* A decoded payload of a tool call, as far as the client reads it:
\*   content: "content" is a key of the payload
\*   result:  "result" is a key of payload["content"]
\*   key:     the per-type key of the result ("products", "service_apis"), or
\*            "none" when it holds neither
\*   entries: the dict under that key
\*   token:   result.get("next_token")
NoPayload ==
    [content |-> FALSE, result |-> FALSE, key |-> "none", entries |-> <<>>, token |-> None]

\* The body of an HTTP response, as far as the client reads it:
\*   json:          the body is JSON (response.json() returns)
\*   top:           the type of the decoded body
\*   hasError:      `"error" in result` is true (a key of an object, an element
\*                  of a list, a substring of a string)
\*   hasResult, resultIsObj, hasContent, contentIsList, contentLen, itemIsObj,
\*   hasText:       the nesting result -> content -> [0] -> text
\*   textIsStr:     the text is a JSON string
\*   textJson:      the text decodes as JSON
\*   payload:       what the text decodes to
GoodBody(p) ==
    [json |-> TRUE, top |-> "object", hasError |-> FALSE, hasResult |-> TRUE,
     resultIsObj |-> TRUE, hasContent |-> TRUE, contentIsList |-> TRUE,
     contentLen |-> 1, itemIsObj |-> TRUE, hasText |-> TRUE, textIsStr |-> TRUE,
     textJson |-> TRUE, payload |-> p]

NoBody == [GoodBody(NoPayload) EXCEPT !.json = FALSE, !.top = "none"]

\* the error objects the client holds in last_error or names in a message
NoError == [kind |-> "None", code |-> 0]

\* the first level at which result["result"]["content"][0]["text"] fails, as the
\* exception it raises there ("ok" when it yields the text)
IndexText(b) ==
    IF b.top # "object" THEN "TypeError"
    ELSE IF ~b.hasResult THEN "KeyError"
    ELSE IF ~b.resultIsObj THEN "TypeError"
    ELSE IF ~b.hasContent THEN "KeyError"
    ELSE IF ~b.contentIsList THEN "TypeError"
    ELSE IF b.contentLen = 0 THEN "IndexError"
    ELSE IF ~b.itemIsObj THEN "TypeError"
    ELSE IF ~b.hasText THEN "KeyError"
    ELSE "ok"

Returned(p) ==
    [kind |-> "return", msg |-> "", code |-> 0, error |-> NoError, payload |-> p]

Raised(exc, msg, code, err) ==
    [kind |-> exc, msg |-> msg, code |-> code, error |-> err, payload |-> NoPayload]

NoResult ==
    [kind |-> "none", msg |-> "", code |-> 0, error |-> NoError, payload |-> NoPayload]

\* lines 219-236: the body of a response whose status is below 400, unwrapped.
\* Only json.JSONDecodeError (lines 221, 235) and KeyError, IndexError,
\* TypeError of the indexing (line 230) become APIError; a TypeError of
\* `"error" in result`, of result['error'] or of json.loads(content) propagates.
Unwrap(b) ==
    IF ~b.json THEN Raised("APIError", "Invalid JSON response from API", 0, NoError)
    ELSE IF b.top \in {"number", "null"} THEN Raised("TypeError", "", 0, NoError)
    ELSE IF b.hasError THEN
        IF b.top = "object" THEN Raised("APIError", "MCP error", 0, NoError)
        ELSE Raised("TypeError", "", 0, NoError)
    ELSE IF IndexText(b) # "ok" THEN
        Raised("APIError", "Unexpected API response structure", 0, NoError)
    ELSE IF ~b.textIsStr THEN Raised("TypeError", "", 0, NoError)
    ELSE IF ~b.textJson THEN
        Raised("APIError", "Invalid JSON in API response content", 0, NoError)
    ELSE Returned(b.payload)

\* lines 181-183
get_backoff(a) ==
    RETRY_BACKOFF_SECONDS[Min(a, Len(RETRY_BACKOFF_SECONDS) - 1) + 1]

\* ---- Python's int(str), on the characters a header is made of here ----
DIGITS == {"0", "1", "2", "3", "4", "5", "6", "7", "8", "9"}

DigitValue(c) ==
    CASE c = "0" -> 0 [] c = "1" -> 1 [] c = "2" -> 2 [] c = "3" -> 3 [] c = "4" -> 4
      [] c = "5" -> 5 [] c = "6" -> 6 [] c = "7" -> 7 [] c = "8" -> 8 [] c = "9" -> 9

\* str.strip(): without the leading and trailing blanks
RECURSIVE Strip(_)
Strip(s) ==
    IF s = <<>> THEN s
    ELSE IF Head(s) = " " THEN Strip(Tail(s))
    ELSE IF s[Len(s)] = " " THEN Strip(SubSeq(s, 1, Len(s) - 1))
    ELSE s

HasSign(s) == s # <<>> /\ Head(s) \in {"-", "+"}

Unsigned(s) == IF HasSign(s) THEN Tail(s) ELSE s

\* int(s) returns (it raises ValueError otherwise): after stripping, an optional
\* sign and then one or more digits
IntParses(s) ==
    LET d == Unsigned(Strip(s))
    IN  d # <<>> /\ \A i \in DOMAIN d : d[i] \in DIGITS

RECURSIVE DigitsValue(_)
DigitsValue(d) ==
    IF d = <<>> THEN 0
    ELSE 10 * DigitsValue(SubSeq(d, 1, Len(d) - 1)) + DigitValue(d[Len(d)])

IntOf(s) ==
    LET t == Strip(s)
        m == DigitsValue(Unsigned(t))
    IN  IF HasSign(t) /\ Head(t) = "-" THEN 0 - m ELSE m

\* lines 185-192
parse_retry_after(header_value, default) ==
    IF ~header_value.some THEN default
    ELSE IF IntParses(header_value.v) THEN IntOf(header_value.v)
    ELSE default

\* ---- what the server may answer to one request ----
Timeout      == [kind |-> "timeout", status |-> 0, retryAfter |-> None, body |-> NoBody]
NetworkError == [kind |-> "network", status |-> 0, retryAfter |-> None, body |-> NoBody]
Http(st, h, b) == [kind |-> "http", status |-> st, retryAfter |-> h, body |-> b]

\* lines 204, 210, 238, 243: the answers the loop goes round again on
Retryable(r) ==
    \/ r.kind \in {"timeout", "network"}
    \/ r.kind = "http" /\ (r.status = 429 \/ r.status >= 500)

\* lines 239, 244: the exception a failed request leaves in last_error
\* (a 429 or 5xx answer leaves last_error as it was)
ErrorAfter(r, err) ==
    IF r.kind = "timeout" THEN [kind |-> "TimeoutException", code |-> 0]
    ELSE IF r.kind = "network" THEN [kind |-> "NetworkError", code |-> 0]
    ELSE err

\* lines 205, 212, 241, 246: what the loop passes to time.sleep after answer r
SleepFor(r, a) ==
    IF r.kind = "http" /\ r.status = 429
    THEN parse_retry_after(r.retryAfter, get_backoff(a))
    ELSE get_backoff(a)

\* line 249
Exhausted(err) ==
    Raised("APIError", "API request failed after attempts", MAX_RETRIES, err)

\* lines 198-246: one pass of the loop body up to the sleep, the return or the
\* raise, for attempt a with last_error = err, when the server answers r:
\* where the call is then, and its last_error, sleep argument and result
PostOutcome(r, a, err) ==
    IF Retryable(r)
    THEN [pc |-> "sleep", last_error |-> ErrorAfter(r, err),
          sleepArg |-> SleepFor(r, a), result |-> NoResult]
    ELSE LET res == IF r.status >= 400
                    THEN Raised("APIError", "API request failed", r.status, NoError)
                    ELSE Unwrap(r.body)
         IN  [pc |-> IF res.kind = "return" THEN "returned" ELSE "raised",
              last_error |-> err, sleepArg |-> 0, result |-> res]

\* a loop that makes one attempt more than MAX_RETRIES
SleepOutcome_one_more(arg, a, err) ==
    IF arg < 0
    THEN [pc |-> "raised", attempt |-> a,
          result |-> Raised("ValueError", "sleep length must be non-negative", 0, NoError)]
    ELSE IF a + 1 < MAX_RETRIES + 1
    THEN [pc |-> "post", attempt |-> a + 1, result |-> NoResult]
    ELSE [pc |-> "raised", attempt |-> a + 1, result |-> Exhausted(err)]

\* lines 207, 212, 241, 246 and the loop's next step: time.sleep(arg) raises
\* ValueError for a negative argument; otherwise it returns and the loop goes on
\* to the next attempt, or falls through to line 249
SleepOutcome(arg, a, err) ==
    IF arg < 0
    THEN [pc |-> "raised", attempt |-> a,
          result |-> Raised("ValueError", "sleep length must be non-negative", 0, NoError)]
    ELSE IF a + 1 < MAX_RETRIES
    THEN [pc |-> "post", attempt |-> a + 1, result |-> NoResult]
    ELSE [pc |-> "raised", attempt |-> a + 1, result |-> Exhausted(err)]

\* the request of the current attempt is posted and the server answers r
Post(r) ==
    LET o == PostOutcome(r, attempt, last_error)
    IN  /\ callPc = "post"
        /\ served' = Append(served, r)
        /\ callPc' = o.pc
        /\ last_error' = o.last_error
        /\ sleepArg' = o.sleepArg
        /\ callResult' = o.result
        /\ UNCHANGED <<attempt, sleeps>>

\* the sleep before the next attempt
Sleep ==
    LET o == SleepOutcome(sleepArg, attempt, last_error)
    IN  /\ callPc = "sleep"
        /\ sleeps' = Append(sleeps, sleepArg)
        /\ callPc' = o.pc
        /\ attempt' = o.attempt
        /\ callResult' = o.result
        /\ UNCHANGED <<last_error, sleepArg, served>>

\* lines 197-198: the state call_mcp_tool starts its loop in
CallStarts ==
    /\ posted = 0
    /\ callPc = "post"
    /\ attempt = 0
    /\ last_error = NoError
    /\ sleepArg = 0
    /\ callResult = NoResult
    /\ served = <<>>
    /\ sleeps = <<>>

-----------------------------------------------------------------------------
(* Resilient client: fetch_region_resources *)

MAX_PAGES == 100

\* line 279
result_key(rt) == IF rt = "product" THEN "products" ELSE "service_apis"

\* line 292: data.get("content", {}).get("result", {}) is the result of the
\* payload when both keys are there, and {} otherwise;
\* line 293: result.get(result_key, {})
page_resources_of(data, rt) ==
    IF data.content /\ data.result /\ data.key = result_key(rt) THEN data.entries ELSE <<>>

\* line 300: result.get("next_token")
next_token_of(data) == IF data.content /\ data.result THEN data.token ELSE None

\* `if next_token`: None and "" are false
Truthy(t) == t.some /\ Len(t.v) > 0

\* a merge in which a name already in the dict keeps its status
RECURSIVE merge_page_keep_first(_, _)
merge_page_keep_first(res, pairs) ==
    IF pairs = <<>> THEN res
    ELSE merge_page_keep_first(
             IF Head(pairs).name \in Keys(res) THEN res
             ELSE SetItem(res, Head(pairs).name, Head(pairs).status),
             Tail(pairs))

\* lines 294-295: for name, status in page_resources.items(): resources[name] = status
RECURSIVE merge_page(_, _)
merge_page(res, pairs) ==
    IF pairs = <<>> THEN res
    ELSE merge_page(SetItem(res, Head(pairs).name, Head(pairs).status), Tail(pairs))

\* lines 286-287: args["next_token"] is set only for a true next_token
args_token(tok) == IF Truthy(tok) THEN tok ELSE None

FetchNoResult ==
    [kind |-> "none", msg |-> "", code |-> 0, resource_type |-> "", region |-> "",
     value |-> <<>>]

\* line 306
FetchReturned(res) ==
    [kind |-> "return", msg |-> "", code |-> 0, resource_type |-> "", region |-> "",
     value |-> res]

\* the loop running out of pages taken for a return of nothing
ExceededPages_silent(rt, rg) == FetchReturned(<<>>)

\* line 304
ExceededPages(rt, rg) ==
    [kind |-> "APIError", msg |-> "Exceeded maximum pages", code |-> MAX_PAGES,
     resource_type |-> rt, region |-> rg, value |-> <<>>]

\* an exception of call_mcp_tool, passing through fetch_region_resources
Propagated(res) ==
    [kind |-> res.kind, msg |-> res.msg, code |-> res.code, resource_type |-> "",
     region |-> "", value |-> <<>>]

\* the frame of call_mcp_tool is gone
CallGone ==
    /\ callPc' = "idle"
    /\ attempt' = 0
    /\ last_error' = NoError
    /\ sleepArg' = 0
    /\ callResult' = NoResult
    /\ served' = <<>>
    /\ sleeps' = <<>>

\* history: no name seen on any page yet
NoneSeen == [n \in {} |-> ""]

\* history: the server has served the page p
PageServed(p) ==
    LET shaped == /\ p.content
                  /\ p.result
                  /\ \/ resource_type = "product" /\ p.key = "products"
                     \/ resource_type = "api" /\ p.key = "service_apis"
        e == IF shaped THEN p.entries ELSE <<>>
    IN  /\ pagesServed' = pagesServed + 1
        /\ malformed' = (malformed \/ ~shaped)
        /\ lastToken' = IF p.content /\ p.result THEN p.token ELSE None
        /\ latest' = [n \in DOMAIN latest \cup Keys(e) |->
                         IF n \in Keys(e) THEN Get(e, n) ELSE latest[n]]

\* lines 281-289: the loop builds the arguments of the next page's request and
\* calls call_mcp_tool
FetchRequest ==
    /\ fetchPc = "loop"
    /\ argsToken' = args_token(next_token)
    /\ fetchPc' = "calling"
    /\ callPc' = "post"
    /\ UNCHANGED <<attempt, last_error, sleepArg, callResult, served, sleeps>>
    /\ UNCHANGED <<region, resource_type, page, resources, next_token, fetchResult,
                   lastToken, latest, pagesServed, malformed>>

\* lines 291-306: call_mcp_tool has returned data: the page is merged, and the
\* loop breaks and returns, goes on to the next page, or runs out of pages
FetchPage(data) ==
    LET merged == merge_page(resources, page_resources_of(data, resource_type))
        tok    == next_token_of(data)
    IN  /\ resources' = merged
        /\ next_token' = tok
        /\ IF ~Truthy(tok)
           THEN fetchPc' = "returned" /\ fetchResult' = FetchReturned(merged)
                /\ UNCHANGED page
           ELSE IF page < MAX_PAGES
           THEN fetchPc' = "loop" /\ page' = page + 1 /\ UNCHANGED fetchResult
           ELSE fetchPc' = "raised" /\ fetchResult' = ExceededPages(resource_type, region)
                /\ UNCHANGED page
        /\ UNCHANGED <<region, resource_type, argsToken>>

\* call_mcp_tool has raised: the exception leaves fetch_region_resources
FetchRaise(res) ==
    /\ fetchPc' = "raised"
    /\ fetchResult' = Propagated(res)
    /\ UNCHANGED <<region, resource_type, page, resources, next_token, argsToken,
                   lastToken, latest, pagesServed, malformed>>

\* inside call_mcp_tool: the request is posted and the server answers r; when
\* that ends the call, fetch_region_resources goes on in the same step
FetchPost(r) ==
    LET o == PostOutcome(r, attempt, last_error)
    IN  /\ fetchPc = "calling"
        /\ callPc = "post"
        /\ IF o.pc = "returned"
           THEN CallGone /\ PageServed(r.body.payload) /\ FetchPage(o.result.payload)
           ELSE IF o.pc = "raised"
           THEN CallGone /\ FetchRaise(o.result)
           ELSE Post(r) /\ UNCHANGED fetchVars

\* inside call_mcp_tool: the sleep before the next attempt; when it ends the
\* call, the exception leaves fetch_region_resources in the same step
FetchSleep ==
    LET o == SleepOutcome(sleepArg, attempt, last_error)
    IN  /\ fetchPc = "calling"
        /\ callPc = "sleep"
        /\ IF o.pc = "raised"
           THEN CallGone /\ FetchRaise(o.result)
           ELSE Sleep /\ UNCHANGED fetchVars

-----------------------------------------------------------------------------
(* State store: validate_region_name, get_state_file, load_*_state,
   save_*_state.  A region identifier is a str, written as the sequence of its
   characters; a path below state_dir is the sequence of the characters of the
   file's name, the suffixes ".json" and ".tmp" being one element each. *)

\* line 30
STATE_SCHEMA_VERSION == 1

\* sub in s, for str
Contains(s, sub) ==
    \E i \in 1..(Len(s) - Len(sub) + 1) : SubSeq(s, i, i + Len(sub) - 1) = sub

\* the parts of a PurePosixPath: the pieces between "/", without the empty
\* ones and without "."
RECURSIVE path_parts(_)
path_parts(s) ==
    IF s = <<>> THEN <<>>
    ELSE LET cut  == IF Contains(s, <<"/">>)
                     THEN CHOOSE i \in 1..Len(s) :
                              s[i] = "/" /\ \A j \in 1..(i - 1) : s[j] # "/"
                     ELSE Len(s) + 1
             head == SubSeq(s, 1, cut - 1)
             rest == SubSeq(s, cut + 1, Len(s))
         IN  (IF head \in {<<>>, <<".">>} THEN <<>> ELSE <<head>>) \o path_parts(rest)

\* Path(region).name: the last part, "" when there is none
path_name(s) ==
    LET parts == path_parts(s)
    IN  IF parts = <<>> THEN <<>> ELSE parts[Len(parts)]

\* a validation that lets the backslash through
validate_region_name_no_backslash(rg) ==
    IF Contains(rg, <<".", ".">>) \/ Contains(rg, <<"/">>)
    THEN [ok |-> FALSE, exc |-> "ValueError", value |-> rg]
    ELSE IF path_name(rg) # rg
    THEN [ok |-> FALSE, exc |-> "ValueError", value |-> rg]
    ELSE [ok |-> TRUE, exc |-> "", value |-> rg]

\* lines 313-325: the identifier is returned, or ValueError("Invalid region
\* name: {region}") is raised
validate_region_name(rg) ==
    IF Contains(rg, <<".", ".">>) \/ Contains(rg, <<"/">>) \/ Contains(rg, <<"\\">>)
    THEN [ok |-> FALSE, exc |-> "ValueError", value |-> rg]
    ELSE IF path_name(rg) # rg
    THEN [ok |-> FALSE, exc |-> "ValueError", value |-> rg]
    ELSE [ok |-> TRUE, exc |-> "", value |-> rg]

\* lines 328-331: state_dir / f"{safe_region}.json", for a validated region
get_state_file(rg) == validate_region_name(rg).value \o <<".json">>

\* lines 334-336: state_dir / "regions.json"
get_global_state_file == <<"r", "e", "g", "i", "o", "n", "s", ".json">>

\* lines 394, 418: state_file.with_suffix(".json.tmp"); the name ".json" (of the
\* region "") has no suffix to replace, so the new one is added to it
with_suffix(path) ==
    IF Len(path) = 1 THEN path \o <<".json", ".tmp">> ELSE path \o <<".tmp">>

\* the keys of a state dict that hold resource maps
TYPE_KEYS == {"region", "product", "api"}

NoMap == [has |-> FALSE, d |-> <<>>]
\* a resource map under a key of the state dict
HasMap(d) == [has |-> TRUE, d |-> d]
NoVersion == [has |-> FALSE, v |-> 0]

\* the dict {}: updated = 0 stands for no "_last_updated" key
EmptyState == [version |-> NoVersion, updated |-> 0, maps |-> [t \in TYPE_KEYS |-> NoMap]]

\* a missing "_schema_version" taken for the supported version
version_of_lenient(st) == IF st.version.has THEN st.version.v ELSE STATE_SCHEMA_VERSION

\* state.get("_schema_version", 0)
version_of(st) == IF st.version.has THEN st.version.v ELSE 0

\* state.get(resource_type, {})
state_get(st, t) == IF st.maps[t].has THEN st.maps[t].d ELSE <<>>

\* a dict with its keys in sorted order
sort_keys(d) ==
    LET names == sorted(Keys(d))
    IN  [i \in 1..Len(names) |-> [name |-> names[i], status |-> Get(d, names[i])]]

\* lines 397, 421: json.dumps(state, indent=2, sort_keys=True): the text of an
\* object, the keys of every map in sorted order
dumps(st) ==
    [kind |-> "object",
     state |-> [st EXCEPT !.maps =
                   [t \in TYPE_KEYS |->
                       [has |-> st.maps[t].has, d |-> sort_keys(st.maps[t].d)]]]]

\* contents of a file that are not the text of a JSON object: a text that is
\* not JSON, the text of a JSON list (string, number, null), the beginning of a
\* text whose writing broke off
InvalidJson == [kind |-> "invalid", state |-> EmptyState]
NonObject   == [kind |-> "nonobject", state |-> EmptyState]
Partial     == [kind |-> "partial", state |-> EmptyState]

LoadNoResult == [kind |-> "none", exc |-> "", state |-> EmptyState]
LoadReturned(st) == [kind |-> "return", exc |-> "", state |-> st]
StoreRaised(exc) == [kind |-> "raise", exc |-> exc, state |-> EmptyState]

\* a load that lets the decoding error of json.loads through
load_state_file_strict(files, path) ==
    IF path \notin DOMAIN files THEN LoadReturned(EmptyState)
    ELSE IF files[path].kind # "object" THEN StoreRaised("JSONDecodeError")
    ELSE IF version_of(files[path].state) # STATE_SCHEMA_VERSION
    THEN StoreRaised("NotImplementedError")
    ELSE LoadReturned(files[path].state)

\* lines 342-359, 365-382: the body shared by load_region_state and
\* load_global_state, for the files of state_dir
load_state_file(files, path) ==
    IF path \notin DOMAIN files THEN LoadReturned(EmptyState)
    ELSE IF files[path].kind \in {"invalid", "partial"} THEN LoadReturned(EmptyState)
    ELSE IF files[path].kind = "nonobject" THEN StoreRaised("AttributeError")
    ELSE IF version_of(files[path].state) # STATE_SCHEMA_VERSION
    THEN StoreRaised("NotImplementedError")
    ELSE LoadReturned(files[path].state)

\* lines 339-359
load_region_state(files, rg) ==
    IF ~validate_region_name(rg).ok THEN StoreRaised("ValueError")
    ELSE load_state_file(files, get_state_file(rg))

\* lines 362-382
load_global_state(files) == load_state_file(files, get_global_state_file)

\* a save that stamps the time only
stamped_time_only(st, now) == [st EXCEPT !.updated = now]

\* lines 387-388, 411-412: the two keys every save stamps on the dict
stamped(st, now) ==
    [st EXCEPT !.version = [has |-> TRUE, v |-> STATE_SCHEMA_VERSION],
                  !.updated = now]

\* the file the call in progress is about
state_file ==
    IF op.name \in {"load_global_state", "save_global_state"}
    THEN get_global_state_file
    ELSE get_state_file(op.region)

\* lines 394, 418
tmp_file == with_suffix(state_file)

\* the files fs without the file path
Unlinked(files, path) == [q \in DOMAIN files \ {path} |-> files[q]]

\* the files fs with the file path holding content
Written(files, path, content) ==
    [q \in DOMAIN files \cup {path} |-> IF q = path THEN content ELSE files[q]]

\* a call begins: what the disk was is remembered
StoreCall(name, rg, st) ==
    /\ storePc = "ready"
    /\ op' = [name |-> name, region |-> rg, state |-> st]
    /\ fsBefore' = fs
    /\ dirBefore' = dirExists
    /\ UNCHANGED again

\* lines 339-359: load_region_state(state_dir, rg)
LoadRegion(rg) ==
    /\ StoreCall("load_region_state", rg, EmptyState)
    /\ opResult' = load_region_state(fs, rg)
    /\ storePc' = "done"
    /\ UNCHANGED <<fs, dirExists>>

\* lines 362-382: load_global_state(state_dir)
LoadGlobal ==
    /\ StoreCall("load_global_state", <<>>, EmptyState)
    /\ opResult' = load_global_state(fs)
    /\ storePc' = "done"
    /\ UNCHANGED <<fs, dirExists>>

\* lines 385-394: save_region_state(state, state_dir, rg) up to the try: the
\* dict is stamped, the directory made, and only then the region validated
SaveRegion(st, rg, now) ==
    /\ StoreCall("save_region_state", rg, stamped(st, now))
    /\ dirExists' = TRUE
    /\ IF validate_region_name(rg).ok
       THEN storePc' = "write" /\ opResult' = LoadNoResult
       ELSE storePc' = "done" /\ opResult' = StoreRaised("ValueError")
    /\ UNCHANGED fs

\* lines 409-418: save_global_state(state, state_dir) up to the try
SaveGlobal(st, now) ==
    /\ StoreCall("save_global_state", <<>>, stamped(st, now))
    /\ dirExists' = TRUE
    /\ storePc' = "write"
    /\ opResult' = LoadNoResult
    /\ UNCHANGED fs

\* lines 397, 421: tmp_file.write_text(json.dumps(...)) writes the whole text,
\* or fails before the file is opened, or fails having written a part of it
WriteTemp(w) ==
    /\ storePc = "write"
    /\ \/ w = "written" /\ fs' = Written(fs, tmp_file, dumps(op.state))
                         /\ storePc' = "rename"
       \/ w = "unopened" /\ fs' = fs /\ storePc' = "except"
       \/ w = "broken" /\ fs' = Written(fs, tmp_file, Partial) /\ storePc' = "except"
    /\ UNCHANGED <<dirExists, op, opResult, fsBefore, dirBefore, again>>

\* lines 398, 422: tmp_file.rename(state_file) replaces the target in one
\* step, or fails and changes nothing
Rename(ok) ==
    /\ storePc = "rename"
    /\ IF ok
       THEN /\ fs' = Unlinked(Written(fs, state_file, fs[tmp_file]), tmp_file)
            /\ storePc' = "done"
            /\ opResult' = LoadReturned(EmptyState)
       ELSE /\ fs' = fs
            /\ storePc' = "except"
            /\ UNCHANGED opResult
    /\ UNCHANGED <<dirExists, op, fsBefore, dirBefore, again>>

\* an except clause that leaves the temporary file behind
CleanUp_forgotten ==
    /\ storePc = "except"
    /\ fs' = fs
    /\ opResult' = StoreRaised("OSError")
    /\ storePc' = "done"
    /\ UNCHANGED <<dirExists, op, fsBefore, dirBefore, again>>

\* lines 399-403, 423-427: the except clause unlinks the temporary file if it
\* exists and raises the error again
CleanUp ==
    /\ storePc = "except"
    /\ fs' = Unlinked(fs, tmp_file)
    /\ opResult' = StoreRaised("OSError")
    /\ storePc' = "done"
    /\ UNCHANGED <<dirExists, op, fsBefore, dirBefore, again>>

\* after the call, the state of the same file is loaded (again)
LoadAgain ==
    /\ storePc = "done"
    /\ again' = IF op.name \in {"load_global_state", "save_global_state"}
                THEN load_global_state(fs)
                ELSE load_region_state(fs, op.region)
    /\ storePc' = "loaded"
    /\ UNCHANGED <<dirExists, fs, op, opResult, fsBefore, dirBefore>>

-----------------------------------------------------------------------------
(* main: one run.  A fetch is taken as a whole: it returns a map or raises. *)

\* lines 36-38
EXIT_SUCCESS == 0
EXIT_CHANGES == 1
EXIT_ERROR == 2

\* d[k] = v on a dict with any values, as the list of its items [k, v]: an
\* existing key keeps its place, a new key goes last
put(d, k, v) ==
    IF \E i \in DOMAIN d : d[i].k = k
    THEN [i \in DOMAIN d |-> IF d[i].k = k THEN [k |-> k, v |-> v] ELSE d[i]]
    ELSE Append(d, [k |-> k, v |-> v])

\* d[k], for k in d
item(d, k) == d[CHOOSE i \in DOMAIN d : d[i].k = k].v

\* lines 385-406, 409-430 as one step: the files after a save of state to
\* path that succeeds, or that fails in the write or the rename
save_state_file(files, path, st, now, ok) ==
    IF ok
    THEN Unlinked(Written(files, path, dumps(stamped(st, now))), with_suffix(path))
    ELSE Unlinked(files, with_suffix(path))

\* line 880: [t for t in args.type if t != "region"]
per_region_types == SelectSeq(args.type, LAMBDA t : t # "region")

\* line 852
track_regions == \E i \in DOMAIN args.type : args.type[i] = "region"

\* the region and the resource type the loops are at
loop_region == args.regions[ri]
loop_type == per_region_types[ti]

\* what a fetch gives main: a map, or an exception
FetchGave(d) == [kind |-> "return", value |-> d]
FetchFailed(exc) == [kind |-> exc, value |-> <<>>]

NotLoaded == [path |-> <<>>, present |-> FALSE, content |-> InvalidJson]

\* history: the file a load has read
LoadedFrom(path) ==
    lastLoaded' = IF path \in DOMAIN fs
                  THEN [path |-> path, present |-> TRUE, content |-> fs[path]]
                  ELSE [path |-> path, present |-> FALSE, content |-> InvalidJson]

\* lines 935-945: the except clauses log the error and exit with EXIT_ERROR
Raise(exc) ==
    /\ mainPc' = "exited"
    /\ exitCode' = EXIT_ERROR
    /\ raisedExc' = exc

\* a compare that takes every entity as new: the current map is held
\* against an empty one
compared_to_nothing(previous, current) ==
    [changes |-> compare_states(<<>>, current), first_run |-> FALSE,
     any |-> has_changes(compare_states(<<>>, current))]

\* lines 861-869, 904-914: a previous map that is true is compared with the
\* current one; otherwise the entity is on its first run
compared(previous, current) ==
    IF previous # <<>>
    THEN [changes |-> compare_states(previous, current), first_run |-> FALSE,
          any |-> has_changes(compare_states(previous, current))]
    ELSE [changes |-> NoChanges, first_run |-> TRUE, any |-> FALSE]

\* a dict whose map of t is updated with current, entries of the old map
\* that current lacks being kept
set_map_merged(st, t, current) ==
    [st EXCEPT !.maps[t] =
        HasMap(current \o SelectSeq(st.maps[t].d,
                                    LAMBDA x : \A i \in DOMAIN current :
                                                  current[i].name # x.name))]

\* lines 871, 916: state[resource_type] = current
set_map(st, t, current) == [st EXCEPT !.maps[t] = HasMap(current)]

\* history: in pass p of the loop the map current was fetched for the
\* resource type t of the region rg, whose loaded state held previous
Fetched(p, rg, t, previous, current) ==
    [pass |-> p, region |-> rg, type |-> t, previous |-> previous, value |-> current]

\* history: the maps differ and the previous one is not empty
Differs(previous, current) == previous # <<>> /\ ~DictEq(previous, current)

\* lines 854-857: fetch_all_regions()
FetchAllRegions(o) ==
    /\ mainPc = "global_fetch"
    /\ IF o.kind = "return"
       THEN /\ current_regions' = o.value
            /\ mainPc' = "global_load"
            /\ UNCHANGED <<exitCode, raisedExc>>
       ELSE Raise(o.kind) /\ UNCHANGED current_regions
    /\ UNCHANGED <<args, results, is_first_run, any_changes, region_changes,
                   region_first_run, global_state, state, ri, ti, stdout, detected,
                   lastLoaded, fsStart, fs, dirExists, renderVars, fetched, savedPasses,
                   runVars>>

\* lines 859-872: load_global_state, the compare, global_state["region"]
CompareRegions ==
    LET r == load_global_state(fs)
        previous_regions == state_get(r.state, "region")
        c == compared(previous_regions, current_regions)
    IN  /\ mainPc = "global_load"
        /\ LoadedFrom(get_global_state_file)
        /\ IF r.kind = "return"
           THEN /\ region_changes' = Some(c.changes)
                /\ region_first_run' = c.first_run
                /\ any_changes' = (any_changes \/ c.any)
                /\ detected' = (detected \/ Differs(previous_regions, current_regions))
                /\ global_state' = set_map(r.state, "region", current_regions)
                /\ fetched' = Append(fetched, Fetched(0, <<>>, "region", previous_regions,
                                                      current_regions))
                /\ mainPc' = "global_save"
                /\ UNCHANGED <<exitCode, raisedExc>>
           ELSE /\ Raise(r.exc)
                /\ UNCHANGED <<region_changes, region_first_run, any_changes, detected,
                               global_state, fetched>>
        /\ UNCHANGED <<args, results, is_first_run, current_regions, state, ri, ti,
                       stdout, fsStart, fs, dirExists, renderVars, savedPasses, runVars>>

\* line 873: save_global_state(global_state, args.state_dir)
SaveRegions(now, ok) ==
    /\ mainPc = "global_save"
    /\ fs' = save_state_file(fs, get_global_state_file, global_state, now, ok)
    /\ dirExists' = TRUE
    /\ global_state' = stamped(global_state, now)
    /\ IF ok
       THEN /\ mainPc' = "region"
            /\ savedPasses' = savedPasses \cup {0}
            /\ UNCHANGED <<exitCode, raisedExc>>
       ELSE Raise("OSError") /\ UNCHANGED savedPasses
    /\ UNCHANGED <<args, results, is_first_run, any_changes, region_changes,
                   region_first_run, current_regions, state, ri, ti, stdout, detected,
                   lastLoaded, fsStart, renderVars, fetched, runVars>>

\* lines 882-889: the loop reaches a region: results[region] = {},
\* is_first_run[region] = {}, load_region_state
LoadState ==
    LET r == load_region_state(fs, loop_region)
    IN  /\ mainPc = "region"
        /\ ri <= Len(args.regions)
        /\ per_region_types # <<>>
        /\ results' = put(results, loop_region, <<>>)
        /\ is_first_run' = put(is_first_run, loop_region, <<>>)
        /\ IF validate_region_name(loop_region).ok
           THEN LoadedFrom(get_state_file(loop_region))
           ELSE UNCHANGED lastLoaded
        /\ IF r.kind = "return"
           THEN /\ state' = r.state
                /\ ti' = 1
                /\ mainPc' = "fetch"
                /\ UNCHANGED <<exitCode, raisedExc>>
           ELSE Raise(r.exc) /\ UNCHANGED <<state, ti>>
        /\ UNCHANGED <<args, any_changes, region_changes, region_first_run,
                       current_regions, global_state, ri, stdout, detected, fsStart, fs,
                       dirExists, renderVars, fetched, savedPasses, runVars>>

\* lines 891-916: fetch_region_resources, the compare, state[resource_type]
FetchResources(o) ==
    LET previous == state_get(state, loop_type)
        c == compared(previous, o.value)
    IN  /\ mainPc = "fetch"
        /\ IF o.kind = "return"
           THEN /\ results' = put(results, loop_region,
                                  put(item(results, loop_region), loop_type, c.changes))
                /\ is_first_run' = put(is_first_run, loop_region,
                                       put(item(is_first_run, loop_region), loop_type,
                                           c.first_run))
                /\ any_changes' = (any_changes \/ c.any)
                /\ detected' = (detected \/ Differs(previous, o.value))
                /\ state' = set_map(state, loop_type, o.value)
                /\ fetched' = Append(fetched, Fetched(ri, loop_region, loop_type, previous,
                                                      o.value))
                /\ IF ti < Len(per_region_types)
                   THEN ti' = ti + 1 /\ UNCHANGED mainPc
                   ELSE mainPc' = "region_save" /\ UNCHANGED ti
                /\ UNCHANGED <<exitCode, raisedExc>>
           ELSE /\ Raise(o.kind)
                /\ UNCHANGED <<results, is_first_run, any_changes, detected, state, ti,
                               fetched>>
        /\ UNCHANGED <<args, region_changes, region_first_run, current_regions,
                       global_state, ri, stdout, lastLoaded, fsStart, fs, dirExists,
                       renderVars, savedPasses, runVars>>

\* line 919: save_region_state(state, args.state_dir, region)
SaveState(now, ok) ==
    /\ mainPc = "region_save"
    /\ fs' = save_state_file(fs, get_state_file(loop_region), state, now, ok)
    /\ dirExists' = TRUE
    /\ state' = stamped(state, now)
    /\ IF ok
       THEN /\ mainPc' = "region"
            /\ ri' = ri + 1
            /\ savedPasses' = savedPasses \cup {ri}
            /\ UNCHANGED <<exitCode, raisedExc>>
       ELSE Raise("OSError") /\ UNCHANGED <<ri, savedPasses>>
    /\ UNCHANGED <<args, results, is_first_run, any_changes, region_changes,
                   region_first_run, current_regions, global_state, ti, stdout, detected,
                   lastLoaded, fsStart, renderVars, fetched, runVars>>

\* region_changes = None, with the shape of a changes dict
NoRegionChanges == [some |-> FALSE, v |-> NoChanges]

\* lines 45-50, 477-479: STATUS_LABELS.get(status, status)
friendly_status(status) ==
    CASE status = "isAvailableIn" -> "Available"
      [] status = "isPlannedIn" -> "Planned"
      [] status = "isBeingPlannedIn" -> "Being Planned"
      [] status = "isNotExpandingIn" -> "Not Expanding"
      [] OTHER -> status

\* the code point of "+"
PLUS == 43

\* the str "_other"
OTHER_GROUP == <<95, 111, 116, 104, 101, 114>>

\* name.split("+", 1) at the last "+", for a name with "+" in it
split_last(name) ==
    LET i == CHOOSE j \in 1..Len(name) :
                 name[j] = PLUS /\ \A h \in (j + 1)..Len(name) : name[h] # PLUS
    IN  [service |-> SubSeq(name, 1, i - 1), operation |-> SubSeq(name, i + 1, Len(name))]

\* line 494: name.split("+", 1), for a name with "+" in it
split(name) ==
    LET i == CHOOSE j \in 1..Len(name) :
                 name[j] = PLUS /\ \A h \in 1..(j - 1) : name[h] # PLUS
    IN  [service |-> SubSeq(name, 1, i - 1), operation |-> SubSeq(name, i + 1, Len(name))]

\* lines 495-497, 500-502: groups[k].append(x), the list being made first for
\* a new k
appended(g, k, x) ==
    IF \E i \in DOMAIN g : g[i].k = k
    THEN put(g, k, Append(item(g, k), x))
    ELSE Append(g, [k |-> k, v |-> <<x>>])

\* lines 482-503: group_apis_by_service, for the names of the items
RECURSIVE group_apis_by_service(_)
group_apis_by_service(names) ==
    IF names = <<>> THEN <<>>
    ELSE LET n      == Len(names)
             g == group_apis_by_service(SubSeq(names, 1, n - 1))
             name   == names[n]
         IN  IF \E j \in 1..Len(name) : name[j] = PLUS
             THEN appended(g, split(name).service, split(name).operation)
             ELSE appended(g, OTHER_GROUP, name)

\* sorted(s) for a list of str, equal elements kept
RECURSIVE sorted_list(_)
sorted_list(s) ==
    IF s = <<>> THEN <<>>
    ELSE LET m == Least({s[i] : i \in DOMAIN s})
             i == CHOOSE j \in DOMAIN s : s[j] = m
         IN  <<m>> \o sorted_list(SubSeq(s, 1, i - 1) \o SubSeq(s, i + 1, Len(s)))

\* lines 597-603, 614-620, 634-640: the groups as the markdown renderer
\* lists them: `for service in sorted(groups.keys())`, `for op in
\* sorted(operations)`
lines_of(g) ==
    LET services == sorted({g[i].k : i \in DOMAIN g})
    IN  [i \in 1..Len(services) |->
            [service |-> services[i],
             operations |-> sorted_list(item(g, services[i]))]]

\* lines 596-603, 613-619, 633-639: the lines of a list of API names
api_lines(names) == lines_of(group_apis_by_service(names))

\* line 482: group_apis_by_service(items) is called
GroupApis ==
    /\ groupPc = "call"
    /\ groups' = group_apis_by_service(items)
    /\ groupPc' = "grouped"
    /\ UNCHANGED <<items, listed>>

\* lines 597-603: the renderer lists the groups
ListApis ==
    /\ groupPc = "grouped"
    /\ listed' = lines_of(groups)
    /\ groupPc' = "listed"
    /\ UNCHANGED <<items, groups>>

\* the names of a list of added or changed items
names_of(lst) == [i \in DOMAIN lst |-> lst[i].name]

\* lines 605-608: "- **{name}** - {friendly_status(status)}"
added_lines(lst) ==
    [i \in DOMAIN lst |->
        [name |-> lst[i].name, status |-> friendly_status(lst[i].status)]]

\* lines 624-628: "- **{name}**: {old} -> {new}"
changed_lines(lst) ==
    [i \in DOMAIN lst |->
        [name |-> lst[i].name, old_status |-> friendly_status(lst[i].old_status),
         new_status |-> friendly_status(lst[i].new_status)]]

\* lines 134-155: get_region_display_name(region_id) and
\* get_region_names().get(region, region), for the names got
display_of(names, rg) ==
    IF \E i \in DOMAIN names : names[i].k = rg
    THEN [region |-> rg, named |-> TRUE, name |-> item(names, rg)]
    ELSE [region |-> rg, named |-> FALSE, name |-> ""]

NoDisplay == [region |-> <<>>, named |-> FALSE, name |-> ""]

\* a flag that is false for every entity
first_run_of_never(first, rg, t) == FALSE

\* is_first_run.get(region, {}).get(resource_type, False)
first_run_of(first, rg, t) ==
    IF \E i \in DOMAIN first : first[i].k = rg
    THEN LET f == item(first, rg)
         IN  IF \E j \in DOMAIN f : f[j].k = t THEN item(f, t) ELSE FALSE
    ELSE FALSE

\* the block of the global region list that is not rendered
NoGlobalBlock == [shown |-> FALSE, added |-> <<>>, removed |-> <<>>]

\* the empty string, as a report
NoReport == [text |-> FALSE, format |-> "", global |-> NoGlobalBlock, sections |-> <<>>]

\* lines 527-547, 694-700: the block of the global region list, which is
\* rendered when has_changes(region_changes) and lists added and removed
global_block(rc, rfr) ==
    IF rc.some /\ ~rfr /\ has_changes(rc.v)
    THEN [shown |-> TRUE, added |-> rc.v.added, removed |-> rc.v.removed]
    ELSE NoGlobalBlock

\* the keys of a dict, in its order
keys_of(d) == [i \in DOMAIN d |-> d[i].k]

\* lines 569-579, 706-709: the resource types of type_results, of those in
\* order, that are not skipped
shown_types(order, type_results, first, rg) ==
    SelectSeq(order,
              LAMBDA t : /\ \E i \in DOMAIN type_results : type_results[i].k = t
                         /\ ~first_run_of(first, rg, t)
                         /\ has_changes(item(type_results, t)))

\* lines 586-642: the section of a resource type in markdown
markdown_section(t, c) ==
    IF t = "api"
    THEN [type |-> t, added |-> api_lines(names_of(c.added)),
          changed |-> api_lines(names_of(c.changed)), removed |-> api_lines(c.removed)]
    ELSE [type |-> t, added |-> added_lines(c.added), changed |-> changed_lines(c.changed),
          removed |-> c.removed]

\* lines 709-713: the entry of a resource type in JSON
json_section(t, c) ==
    [type |-> t, added |-> c.added, changed |-> c.changed, removed |-> c.removed]

\* lines 506-667: the markdown document, "" when no line follows the header;
\* disp holds, for every region of res, what the two lookups of its name gave
format_markdown_report(res, first, rc, rfr, disp) ==
    LET all == [i \in DOMAIN res |->
                   LET ts == shown_types(<<"product", "api">>, res[i].v, first, res[i].k)
                   IN  [region |-> res[i].k, display |-> disp[i].display,
                        long |-> disp[i].long,
                        types |-> [j \in DOMAIN ts |->
                                      markdown_section(ts[j], item(res[i].v, ts[j]))]]]
        sections == SelectSeq(all, LAMBDA x : x.types # <<>>)
    IN  IF ~global_block(rc, rfr).shown /\ sections = <<>> THEN NoReport
        ELSE [text |-> TRUE, format |-> "markdown", global |-> global_block(rc, rfr),
              sections |-> sections]

\* lines 670-724: the JSON document, "" when has_any_changes is false
format_json_report(res, first, rc, rfr) ==
    LET all == [i \in DOMAIN res |->
                   LET ts == shown_types(keys_of(res[i].v), res[i].v, first, res[i].k)
                   IN  [region |-> res[i].k, display |-> NoDisplay, long |-> NoDisplay,
                        types |-> [j \in DOMAIN ts |->
                                      json_section(ts[j], item(res[i].v, ts[j]))]]]
        sections == SelectSeq(all, LAMBDA x : x.types # <<>>)
    IN  IF ~global_block(rc, rfr).shown /\ sections = <<>> THEN NoReport
        ELSE [text |-> TRUE, format |-> "json", global |-> global_block(rc, rfr),
              sections |-> sections]

\* lines 923-928: the loop over args.regions is over and the renderer is called
AtReport ==
    /\ mainPc = "region"
    /\ ri > Len(args.regions) \/ per_region_types = <<>>

\* the cache answers: no request is made
Cached == [kind |-> "cached", value |-> <<>>]

\* lines 138-139: `if _region_names: return _region_names`
cache_hit(names) == names # <<>>

\* lines 551-553 with 134-155: a lookup of the markdown renderer's loop over
\* results, get_region_display_name(region) first and get_region_names() after
\* it; get_region_names answers from the cache, or makes a request, which
\* comes to o, and keeps what it got
GetRegionNames(o) ==
    LET names == IF o = Cached THEN region_names ELSE o.value
        rg    == results[rj].k
    IN  /\ AtReport
        /\ args.format = "markdown"
        /\ rj <= Len(results)
        /\ (o = Cached) <=> cache_hit(region_names)
        /\ requests' = IF o = Cached THEN requests ELSE requests + 1
        /\ IF o.kind \in {"cached", "return"}
           THEN /\ region_names' = names
                /\ IF lk = 1
                   THEN /\ displays' = Append(displays, [display |-> display_of(names, rg),
                                                         long |-> NoDisplay])
                        /\ lk' = 2
                        /\ UNCHANGED rj
                   ELSE /\ displays' = [displays EXCEPT ![rj].long = display_of(names, rg)]
                        /\ lk' = 1
                        /\ rj' = rj + 1
                /\ UNCHANGED <<mainPc, exitCode, raisedExc>>
           ELSE /\ Raise(o.kind)
                /\ UNCHANGED <<region_names, displays, lk, rj>>
        /\ UNCHANGED <<args, results, is_first_run, any_changes, region_changes,
                       region_first_run, current_regions, global_state, state, ri, ti,
                       stdout, detected, lastLoaded, fsStart, fs, dirExists, report,
                       fetched, savedPasses, runVars>>

\* an exit code that tells of changes whatever was found
exit_code_always_changes(any) == EXIT_CHANGES

\* the exit code of an error whatever was found
exit_code_error(any) == EXIT_ERROR

\* line 933: EXIT_CHANGES if any_changes else EXIT_SUCCESS
exit_code(any) == IF any THEN EXIT_CHANGES ELSE EXIT_SUCCESS

\* lines 923-933: the renderer returns the report, which is printed if it is
\* not empty, and the run exits
Report ==
    /\ AtReport
    /\ args.format = "json" \/ rj > Len(results)
    /\ report' = IF args.format = "json"
                 THEN format_json_report(results, is_first_run, region_changes,
                                         region_first_run)
                 ELSE format_markdown_report(results, is_first_run, region_changes,
                                             region_first_run, displays)
    /\ stdout' = IF report'.text THEN report' ELSE stdout
    /\ mainPc' = "exited"
    /\ exitCode' = exit_code(any_changes)
    /\ UNCHANGED <<args, results, is_first_run, any_changes, region_changes,
                   region_first_run, current_regions, global_state, state, ri, ti,
                   detected, raisedExc, lastLoaded, fsStart, fs, dirExists, region_names,
                   rj, lk, displays, requests, fetched, savedPasses, runVars>>

-----------------------------------------------------------------------------
(* Initial values of the parts a specification does not run *)

GroupIdle ==
    /\ items = <<>>
    /\ groups = <<>>
    /\ listed = <<>>
    /\ groupPc = "idle"

CmpIdle ==
    /\ old = <<>>
    /\ new = <<>>
    /\ changes = NoChanges
    /\ cmpPc = "idle"

CallIdle ==
    /\ posted = 0
    /\ callPc = "idle"
    /\ attempt = 0
    /\ last_error = NoError
    /\ sleepArg = 0
    /\ callResult = NoResult
    /\ served = <<>>
    /\ sleeps = <<>>

FetchIdle ==
    /\ fetchPc = "idle"
    /\ region = "us-east-1"
    /\ resource_type = "product"
    /\ page = 1
    /\ resources = <<>>
    /\ next_token = None
    /\ argsToken = None
    /\ fetchResult = FetchNoResult
    /\ lastToken = None
    /\ latest = NoneSeen
    /\ pagesServed = 0
    /\ malformed = FALSE

NoOp == [name |-> "", region |-> <<>>, state |-> EmptyState]

StoreIdle ==
    /\ storePc = "idle"
    /\ dirExists = FALSE
    /\ fs = <<>>
    /\ op = NoOp
    /\ opResult = LoadNoResult
    /\ fsBefore = <<>>
    /\ dirBefore = FALSE
    /\ again = LoadNoResult

MainIdle ==
    /\ mainPc = "idle"
    /\ args = [type |-> <<>>, regions |-> <<>>, format |-> ""]
    /\ results = <<>>
    /\ is_first_run = <<>>
    /\ any_changes = FALSE
    /\ region_changes = NoRegionChanges
    /\ region_first_run = FALSE
    /\ current_regions = <<>>
    /\ global_state = EmptyState
    /\ state = EmptyState
    /\ ri = 1
    /\ ti = 1
    /\ stdout = NoReport
    /\ exitCode = -1
    /\ detected = FALSE
    /\ raisedExc = ""
    /\ lastLoaded = NotLoaded
    /\ fsStart = <<>>
    /\ region_names = <<>>
    /\ rj = 1
    /\ lk = 1
    /\ displays = <<>>
    /\ report = NoReport
    /\ requests = 0
    /\ fetched = <<>>
    /\ savedPasses = {}
    /\ run = 1
    /\ baselined = {}

\* resource maps: {"AW": Available, "A": Planned} in that order, and {"A":
\* Available}
MAP_AW_A ==
    <<[name |-> <<65, 87>>, status |-> "isAvailableIn"],
      [name |-> <<65>>, status |-> "isPlannedIn"]>>
MAP_A == <<[name |-> <<65>>, status |-> "isAvailableIn"]>>

-----------------------------------------------------------------------------
(* Specification SpecCompare: compare_states applied to every pair of dicts *)

InitCompare ==
    /\ GroupIdle
    /\ old \in Dicts(NAMES, MaxKeys)
    /\ new \in Dicts(NAMES, MaxKeys)
    /\ changes = NoChanges
    /\ cmpPc = "start"
    /\ CallIdle
    /\ FetchIdle
    /\ StoreIdle
    /\ MainIdle

Compare ==
    /\ cmpPc = "start"
    /\ changes' = compare_states(old, new)
    /\ cmpPc' = "done"
    /\ UNCHANGED <<posted, groupVars, old, new, callVars, fetchVars, storeVars, mainVars>>

NextCompare == Compare

SpecCompare == InitCompare /\ [][NextCompare]_vars

-----------------------------------------------------------------------------
(* Specification SpecCall: one call of call_mcp_tool against any server *)

\* Retry-After headers: absent, "7", "12", "0", " 5", "-3", "soon", ""
RETRY_AFTER_HEADERS ==
    {None, Some(<<"7">>), Some(<<"1", "2">>), Some(<<"0">>), Some(<<" ", "5">>),
     Some(<<"-", "3">>), Some(<<"s", "o", "o", "n">>), Some(<<>>)}

\* two payloads a tool call may decode to
CALL_PAYLOADS ==
    {[content |-> TRUE, result |-> TRUE, key |-> "products",
      entries |-> <<[name |-> <<65>>, status |-> "isAvailableIn"]>>, token |-> None],
     [content |-> TRUE, result |-> TRUE, key |-> "products", entries |-> <<>>,
      token |-> Some(<<"t", "1">>)]}

\* bodies that are not a well-formed envelope, one per place the unwrapping
\* can fail: not JSON; JSON null, number, string, list; a string and a list
\* holding "error"; an object with an "error" key; and each level of the
\* result -> content -> [0] -> text nesting missing or of the wrong type
BAD_BODIES ==
    LET g == GoodBody(NoPayload)
    IN  {[g EXCEPT !.json = FALSE],
         [g EXCEPT !.top = "null"],
         [g EXCEPT !.top = "number"],
         [g EXCEPT !.top = "string"],
         [g EXCEPT !.top = "string", !.hasError = TRUE],
         [g EXCEPT !.top = "list"],
         [g EXCEPT !.top = "list", !.hasError = TRUE],
         [g EXCEPT !.hasError = TRUE],
         [g EXCEPT !.hasResult = FALSE],
         [g EXCEPT !.resultIsObj = FALSE],
         [g EXCEPT !.hasContent = FALSE],
         [g EXCEPT !.contentIsList = FALSE],
         [g EXCEPT !.contentLen = 0],
         [g EXCEPT !.itemIsObj = FALSE],
         [g EXCEPT !.hasText = FALSE],
         [g EXCEPT !.textIsStr = FALSE],
         [g EXCEPT !.textJson = FALSE]}

CALL_RESPONSES ==
    {Timeout, NetworkError}
    \cup {Http(429, h, NoBody) : h \in RETRY_AFTER_HEADERS}
    \cup {Http(st, None, NoBody) : st \in {400, 404, 500, 503}}
    \cup {Http(200, None, GoodBody(p)) : p \in CALL_PAYLOADS}
    \cup {Http(200, None, b) : b \in BAD_BODIES}

InitCall ==
    /\ GroupIdle
    /\ CmpIdle
    /\ CallStarts
    /\ FetchIdle
    /\ StoreIdle
    /\ MainIdle

NextCall ==
    \/ \E r \in CALL_RESPONSES : Post(r) /\ UNCHANGED <<posted, groupVars, cmpVars, fetchVars, storeVars, mainVars>>
    \/ Sleep /\ UNCHANGED <<posted, groupVars, cmpVars, fetchVars, storeVars, mainVars>>

SpecCall == InitCall /\ [][NextCall]_vars

-----------------------------------------------------------------------------
(* Specification SpecFetch: one call of fetch_region_resources against any
   server *)

\* names of resources on the pages: "A", "AW"
FETCH_NAMES == {<<65>>, <<65, 87>>}

\* continuation tokens: absent, "", "t1", "t2"
TOKENS == {None, Some(<<>>), Some(<<"t", "1">>), Some(<<"t", "2">>)}

\* the payloads of a page: well-formed ones under either per-type key, and
\* ones without "content", without "result", without a per-type key
FETCH_PAYLOADS ==
    [content : {TRUE}, result : {TRUE}, key : {"products", "service_apis"},
     entries : Dicts(FETCH_NAMES, MaxPageKeys), token : TOKENS]
    \cup {NoPayload,
          [NoPayload EXCEPT !.content = TRUE],
          [NoPayload EXCEPT !.content = TRUE, !.result = TRUE,
                            !.token = Some(<<"t", "1">>)]}

FETCH_RESPONSES ==
    {Http(200, None, GoodBody(p)) : p \in FETCH_PAYLOADS}
    \cup {Http(503, None, NoBody), Http(400, None, NoBody),
          Http(429, Some(<<"-", "3">>), NoBody)}

InitFetch ==
    /\ GroupIdle
    /\ CmpIdle
    /\ CallIdle
    /\ fetchPc = "loop"
    /\ region = "us-east-1"
    /\ resource_type \in {"product", "api"}
    /\ page = 1
    /\ resources = <<>>
    /\ next_token = None
    /\ argsToken = None
    /\ fetchResult = FetchNoResult
    /\ lastToken = None
    /\ latest = NoneSeen
    /\ pagesServed = 0
    /\ malformed = FALSE
    /\ StoreIdle
    /\ MainIdle

NextFetch ==
    \/ FetchRequest /\ UNCHANGED <<posted, groupVars, cmpVars, storeVars, mainVars>>
    \/ \E r \in FETCH_RESPONSES : FetchPost(r) /\ UNCHANGED <<posted, groupVars, cmpVars, storeVars, mainVars>>
    \/ FetchSleep /\ UNCHANGED <<posted, groupVars, cmpVars, storeVars, mainVars>>

SpecFetch == InitFetch /\ [][NextFetch]_vars

-----------------------------------------------------------------------------
(* Specification SpecStore: one call of a load or save function on any state
   directory, followed by a load of the same file *)

\* region identifiers: "us", "regions", "a.b", "", ".", "..", "a..b", "a/b",
\* "/e", "a\b"
REGION_IDS ==
    {<<"u", "s">>, <<"r", "e", "g", "i", "o", "n", "s">>, <<"a", ".", "b">>, <<>>,
     <<".">>, <<".", ".">>, <<"a", ".", ".", "b">>, <<"a", "/", "b">>, <<"/", "e">>,
     <<"a", "\\", "b">>}

\* dicts passed to a save: {"product": {AW, A}}; {"product": {A}, "api": {}}
\* carrying the stamps of an earlier load; {"region": {A}}
SAVED_STATES ==
    {[EmptyState EXCEPT !.maps["product"] = HasMap(MAP_AW_A)],
     [EmptyState EXCEPT !.maps["product"] = HasMap(MAP_A), !.maps["api"] = HasMap(<<>>),
                        !.version = [has |-> TRUE, v |-> 1], !.updated = 1],
     [EmptyState EXCEPT !.maps["region"] = HasMap(MAP_A)]}

\* what a state file may hold before the call: text that is not JSON, JSON
\* that is not an object, and objects of version 1, of version 2, without
\* version, with and without resource maps
FILE_CONTENTS ==
    {InvalidJson, NonObject,
     dumps([EmptyState EXCEPT !.version = [has |-> TRUE, v |-> 1], !.updated = 1,
                              !.maps["product"] = HasMap(MAP_A),
                              !.maps["api"] = HasMap(MAP_AW_A)]),
     dumps([EmptyState EXCEPT !.version = [has |-> TRUE, v |-> 1], !.updated = 1,
                              !.maps["region"] = HasMap(MAP_AW_A)]),
     dumps([EmptyState EXCEPT !.version = [has |-> TRUE, v |-> 2], !.updated = 1,
                              !.maps["product"] = HasMap(MAP_A)]),
     dumps([EmptyState EXCEPT !.maps["product"] = HasMap(MAP_A)]),
     dumps(EmptyState)}

\* the files state_dir may hold before the call: any of "us.json",
\* "regions.json" and a temporary file left behind by a killed run
DISKS ==
    LET P == {get_state_file(<<"u", "s">>), get_global_state_file,
              with_suffix(get_state_file(<<"u", "s">>))}
    IN  UNION {{f \in [Q -> FILE_CONTENTS \cup {Partial}] :
                    \A q \in Q : (f[q] = Partial) <=> (q[Len(q)] = ".tmp")} :
               Q \in SUBSET P}

\* values of datetime.now()
NOWS == {2, 3}

InitStore ==
    /\ GroupIdle
    /\ CmpIdle
    /\ CallIdle
    /\ FetchIdle
    /\ storePc = "ready"
    /\ dirExists \in BOOLEAN
    /\ fs \in DISKS
    /\ ~dirExists => fs = <<>>
    /\ op = NoOp
    /\ opResult = LoadNoResult
    /\ fsBefore = <<>>
    /\ dirBefore = FALSE
    /\ again = LoadNoResult
    /\ MainIdle

NextStore ==
    \/ \E rg \in REGION_IDS : LoadRegion(rg) /\ UNCHANGED <<posted, groupVars, cmpVars, callVars, fetchVars, mainVars>>
    \/ LoadGlobal /\ UNCHANGED <<posted, groupVars, cmpVars, callVars, fetchVars, mainVars>>
    \/ \E st \in SAVED_STATES, rg \in REGION_IDS, now \in NOWS :
          SaveRegion(st, rg, now) /\ UNCHANGED <<posted, groupVars, cmpVars, callVars, fetchVars, mainVars>>
    \/ \E st \in SAVED_STATES, now \in NOWS :
          SaveGlobal(st, now) /\ UNCHANGED <<posted, groupVars, cmpVars, callVars, fetchVars, mainVars>>
    \/ \E w \in {"written", "unopened", "broken"} :
          WriteTemp(w) /\ UNCHANGED <<posted, groupVars, cmpVars, callVars, fetchVars, mainVars>>
    \/ \E ok \in BOOLEAN : Rename(ok) /\ UNCHANGED <<posted, groupVars, cmpVars, callVars, fetchVars, mainVars>>
    \/ CleanUp /\ UNCHANGED <<posted, groupVars, cmpVars, callVars, fetchVars, mainVars>>
    \/ LoadAgain /\ UNCHANGED <<posted, groupVars, cmpVars, callVars, fetchVars, mainVars>>

SpecStore == InitStore /\ [][NextStore]_vars

-----------------------------------------------------------------------------
(* Specification SpecMain: one run of main, over any state directory, any
   answers of the service and any failure of a save *)

\* args.type
ARG_TYPES ==
    {<<"product">>, <<"product", "api">>, <<"region">>, <<"region", "api", "product">>}

\* args.regions: "us"; "us" twice; "us" and "regions"; ".."; "us" and "a/b"
ARG_REGIONS ==
    {<<<<"u", "s">>>>,
     <<<<"u", "s">>, <<"u", "s">>>>,
     <<<<"u", "s">>, <<"r", "e", "g", "i", "o", "n", "s">>>>,
     <<<<".", ".">>>>,
     <<<<"u", "s">>, <<"a", "/", "b">>>>}

\* a state object of version 1 with the stamps of an earlier run
Stored == [EmptyState EXCEPT !.version = [has |-> TRUE, v |-> 1], !.updated = 1]

\* what us.json may hold when the run begins
REGION_FILES ==
    {InvalidJson, NonObject,
     dumps([Stored EXCEPT !.maps["product"] = HasMap(MAP_A),
                          !.maps["api"] = HasMap(MAP_AW_A)]),
     dumps([Stored EXCEPT !.maps["product"] = HasMap(MAP_A)]),
     dumps([Stored EXCEPT !.maps["product"] = HasMap(<<>>)]),
     dumps([Stored EXCEPT !.version = [has |-> TRUE, v |-> 2],
                          !.maps["product"] = HasMap(MAP_A)])}

\* what regions.json may hold when the run begins
GLOBAL_FILES ==
    {NonObject,
     dumps([Stored EXCEPT !.maps["region"] = HasMap(MAP_A)]),
     dumps([EmptyState EXCEPT !.maps["region"] = HasMap(MAP_A)])}

\* the files of state_dir when the run begins
MAIN_DISKS ==
    LET us == get_state_file(<<"u", "s">>)
        gl == get_global_state_file
    IN  {<<>>}
        \cup {[q \in {us} |-> c] : c \in REGION_FILES}
        \cup {[q \in {gl} |-> c] : c \in GLOBAL_FILES}
        \cup {[q \in {us, gl} |-> IF q = us THEN c ELSE g] :
                 c \in REGION_FILES, g \in GLOBAL_FILES}

\* what a fetch may come to: a map, APIError, an interrupt, or the TypeError
\* of a body that is not an envelope
FETCH_OUTCOMES ==
    {FetchGave(d) : d \in {<<>>, MAP_A, MAP_AW_A}}
    \cup {FetchFailed(x) : x \in {"APIError", "KeyboardInterrupt", "TypeError"}}

\* the long name of a region
LONG_NAME == "US East (N. Virginia)"

\* what a request of get_region_names may come to: the names of the regions
\* (of "us" alone), no region at all, APIError, an interrupt
NAMES_OUTCOMES ==
    {FetchGave(<<[k |-> <<"u", "s">>, v |-> LONG_NAME]>>), FetchGave(<<>>),
     FetchFailed("APIError"), FetchFailed("KeyboardInterrupt")}

\* the value of datetime.now() in this run
NOW == 2

InitMain ==
    /\ GroupIdle
    /\ CmpIdle
    /\ CallIdle
    /\ FetchIdle
    /\ storePc = "idle"
    /\ op = NoOp
    /\ opResult = LoadNoResult
    /\ fsBefore = <<>>
    /\ dirBefore = FALSE
    /\ again = LoadNoResult
    /\ fs \in MAIN_DISKS
    /\ dirExists = (fs # <<>>)
    /\ args \in [type : ARG_TYPES, regions : ARG_REGIONS, format : {"json", "markdown"}]
    /\ mainPc = IF track_regions THEN "global_fetch" ELSE "region"
    /\ results = <<>>
    /\ is_first_run = <<>>
    /\ any_changes = FALSE
    /\ region_changes = NoRegionChanges
    /\ region_first_run = FALSE
    /\ current_regions = <<>>
    /\ global_state = EmptyState
    /\ state = EmptyState
    /\ ri = 1
    /\ ti = 1
    /\ stdout = NoReport
    /\ exitCode = -1
    /\ detected = FALSE
    /\ raisedExc = ""
    /\ lastLoaded = NotLoaded
    /\ fsStart = fs
    /\ region_names = <<>>
    /\ rj = 1
    /\ lk = 1
    /\ displays = <<>>
    /\ report = NoReport
    /\ requests = 0
    /\ fetched = <<>>
    /\ savedPasses = {}
    /\ run = 1
    /\ baselined = {}

NextMain ==
    \/ \E o \in FETCH_OUTCOMES : FetchAllRegions(o) /\ UNCHANGED <<posted, groupVars, cmpVars, callVars, fetchVars, storeCallVars>>
    \/ CompareRegions /\ UNCHANGED <<posted, groupVars, cmpVars, callVars, fetchVars, storeCallVars>>
    \/ \E ok \in BOOLEAN : SaveRegions(NOW, ok) /\ UNCHANGED <<posted, groupVars, cmpVars, callVars, fetchVars, storeCallVars>>
    \/ LoadState /\ UNCHANGED <<posted, groupVars, cmpVars, callVars, fetchVars, storeCallVars>>
    \/ \E o \in FETCH_OUTCOMES : FetchResources(o) /\ UNCHANGED <<posted, groupVars, cmpVars, callVars, fetchVars, storeCallVars>>
    \/ \E ok \in BOOLEAN : SaveState(NOW, ok) /\ UNCHANGED <<posted, groupVars, cmpVars, callVars, fetchVars, storeCallVars>>
    \/ \E o \in NAMES_OUTCOMES \cup {Cached} :
          GetRegionNames(o) /\ UNCHANGED <<posted, groupVars, cmpVars, callVars, fetchVars, storeCallVars>>
    \/ Report /\ UNCHANGED <<posted, groupVars, cmpVars, callVars, fetchVars, storeCallVars>>

SpecMain == InitMain /\ [][NextMain]_vars

-----------------------------------------------------------------------------
(* Claims about compare_states (checked under SpecCompare) *)

AddedNames   == {changes.added[i].name : i \in DOMAIN changes.added}
RemovedNames == {changes.removed[i] : i \in DOMAIN changes.removed}
ChangedNames == {changes.changed[i].name : i \in DOMAIN changes.changed}
\* keys in both dicts with equal status
UnchangedKeys == {n \in Keys(old) \cap Keys(new) : Get(old, n) = Get(new, n)}

\* C1: the names of added, of removed, of changed and the unchanged keys are
\* pairwise disjoint and their union is exactly keys(old) \cup keys(new).
C1_Partition ==
    cmpPc = "done" =>
        /\ AddedNames \cap RemovedNames = {}
        /\ AddedNames \cap ChangedNames = {}
        /\ AddedNames \cap UnchangedKeys = {}
        /\ RemovedNames \cap ChangedNames = {}
        /\ RemovedNames \cap UnchangedKeys = {}
        /\ ChangedNames \cap UnchangedKeys = {}
        /\ AddedNames \cup RemovedNames \cup ChangedNames \cup UnchangedKeys
              = Keys(old) \cup Keys(new)

\* a comparison in which all four classes are inhabited
C1_Witness ==
    /\ cmpPc = "done"
    /\ AddedNames # {}
    /\ RemovedNames # {}
    /\ ChangedNames # {}
    /\ UnchangedKeys # {}

\* the elements of a list, as a set
Elems(s) == {s[i] : i \in DOMAIN s}

\* C2: added holds one entry {name, status = new[name]} for exactly each name of
\* keys(new) - keys(old); removed holds exactly the names of keys(old) - keys(new),
\* each a bare name; changed holds one entry {name, old_status = old[name],
\* new_status = new[name]} for exactly each name of both dicts whose status differs.
C2_Content ==
    cmpPc = "done" =>
        /\ Elems(changes.added)
              = {[name |-> n, status |-> Get(new, n)] : n \in Keys(new) \ Keys(old)}
        /\ Len(changes.added) = Cardinality(Keys(new) \ Keys(old))
        /\ Elems(changes.removed) = Keys(old) \ Keys(new)
        /\ Len(changes.removed) = Cardinality(Keys(old) \ Keys(new))
        /\ Elems(changes.changed)
              = {[name |-> n, old_status |-> Get(old, n), new_status |-> Get(new, n)] :
                    n \in {k \in Keys(old) \cap Keys(new) : Get(old, k) # Get(new, k)}}
        /\ Len(changes.changed)
              = Cardinality({k \in Keys(old) \cap Keys(new) : Get(old, k) # Get(new, k)})

\* the spec's example: old = {"X": "isPlannedIn"}, new = {"X": "isAvailableIn"}
\* gives changed = [{"X", "isPlannedIn", "isAvailableIn"}]
C2_Witness ==
    /\ cmpPc = "done"
    /\ old = <<[name |-> <<88>>, status |-> "isPlannedIn"]>>
    /\ new = <<[name |-> <<88>>, status |-> "isAvailableIn"]>>
    /\ changes.changed = <<[name |-> <<88>>, old_status |-> "isPlannedIn",
                            new_status |-> "isAvailableIn"]>>
    /\ changes.added = <<>>
    /\ changes.removed = <<>>

\* C3: compare_states(m, m) yields empty added, removed and changed, and
\* has_changes of the result is false.
C3_Identical ==
    (cmpPc = "done" /\ DictEq(old, new)) =>
        /\ changes.added = <<>>
        /\ changes.removed = <<>>
        /\ changes.changed = <<>>
        /\ ~has_changes(changes)

\* a dict of several entries compared with itself
C3_Witness ==
    /\ cmpPc = "done"
    /\ old = new
    /\ Len(old) >= 2
    /\ ~has_changes(changes)

\* a list of str is in strictly increasing order
StrictlyIncreasing(s) == \A i \in 1..(Len(s) - 1) : StrLess(s[i], s[i + 1])

\* the names of a list of entries, in list order
NamesOf(s) == [i \in DOMAIN s |-> s[i].name]

\* C4: each of added, removed and changed is in strictly increasing
\* lexicographic order of name, whatever the insertion order of old and new.
C4_Sorted ==
    cmpPc = "done" =>
        /\ StrictlyIncreasing(NamesOf(changes.added))
        /\ StrictlyIncreasing(changes.removed)
        /\ StrictlyIncreasing(NamesOf(changes.changed))

\* new lists "Am" before "AW" and the result lists "AW" before "Am"
C4_Witness ==
    /\ cmpPc = "done"
    /\ Len(new) >= 2
    /\ new[1].name = <<65, 109>>
    /\ new[2].name = <<65, 87>>
    /\ Len(changes.added) = 2
    /\ changes.added[1].name = <<65, 87>>
    /\ changes.added[2].name = <<65, 109>>

-----------------------------------------------------------------------------
(* Claims about call_mcp_tool (checked under SpecCall) *)

CallEnded == callPc \in {"returned", "raised"}

Is429(r) == r.kind = "http" /\ r.status = 429

\* a 4xx answer other than 429
ClientError(r) == r.kind = "http" /\ r.status >= 400 /\ r.status < 500 /\ r.status # 429

\* a well-formed envelope: every level of the nesting is there, of the right
\* type, and the text decodes
WellFormed(b) ==
    /\ b.json /\ b.top = "object" /\ ~b.hasError
    /\ b.hasResult /\ b.resultIsObj /\ b.hasContent /\ b.contentIsList
    /\ b.contentLen >= 1 /\ b.itemIsObj /\ b.hasText /\ b.textIsStr /\ b.textJson

\* an answer with a non-error status and a well-formed envelope
Success(r) == r.kind = "http" /\ r.status < 400 /\ WellFormed(r.body)

\* an answer with a non-error status whose body is a protocol/shape error
ShapeError(r) == r.kind = "http" /\ r.status < 400 /\ ~WellFormed(r.body)

\* C5: a network failure, a timeout, a 429 and a 5xx are retried (the call sleeps
\* and issues another request while attempts remain, and returns the decoded
\* payload of an answer that succeeds); any other 4xx ends the call at once with
\* APIError carrying the status code, without a sleep after it.
C5_RetryableConditions ==
    LET n == Len(served)
    IN  /\ \A i \in 1..n :
              (Retryable(served[i]) /\ i < MAX_RETRIES) =>
                  \/ i = n /\ callPc = "sleep"
                  \/ Len(sleeps) >= i /\ (n > i \/ callPc = "post")
        /\ \A i \in 1..n :
              Success(served[i]) =>
                  /\ i = n
                  /\ callPc = "returned"
                  /\ callResult = Returned(served[i].body.payload)
        /\ \A i \in 1..n :
              ClientError(served[i]) =>
                  /\ i = n
                  /\ callPc = "raised"
                  /\ callResult.kind = "APIError"
                  /\ callResult.code = served[i].status
                  /\ Len(sleeps) = i - 1

\* the failure of one attempt, as an error object
FailureOf(r) ==
    IF r.kind = "timeout" THEN [kind |-> "TimeoutException", code |-> 0]
    ELSE IF r.kind = "network" THEN [kind |-> "NetworkError", code |-> 0]
    ELSE [kind |-> "HTTPStatus", code |-> r.status]

\* C6: when every attempt ends in a retryable failure, the call issues exactly
\* the maximum number of requests and then raises one APIError that names the
\* attempt count and the failure of the final attempt.
C6_Exhaustion ==
    LET n == Len(served)
    IN  /\ n <= MAX_RETRIES
        /\ (CallEnded /\ n = MAX_RETRIES /\ \A i \in 1..n : Retryable(served[i])) =>
               /\ callResult.kind = "APIError"
               /\ callResult.code = MAX_RETRIES
               /\ callResult.error = FailureOf(served[n])

\* C7: against a server that answers every request with 503 the call issues
\* exactly 6 requests and raises APIError "after 6 attempts"; the retry limit is
\* the length of the backoff table 1, 2, 4, 8, 16, 30.
C7_SixAttempts ==
    LET n == Len(served)
    IN  (CallEnded /\ \A i \in 1..n : served[i] = Http(503, None, NoBody)) =>
            /\ n = 6
            /\ callResult.kind = "APIError"
            /\ callResult.code = 6
            /\ RETRY_BACKOFF_SECONDS = <<1, 2, 4, 8, 16, 30>>
            /\ MAX_RETRIES = Len(RETRY_BACKOFF_SECONDS)

\* the wait the claim gives for the sleep after answer i (attempt i - 1)
ExpectedWait(i) ==
    LET r == served[i]
        k == i - 1
    IN  IF Is429(r) /\ r.retryAfter.some /\ IntParses(r.retryAfter.v)
        THEN IntOf(r.retryAfter.v)
        ELSE RETRY_BACKOFF_SECONDS[Min(k, Len(RETRY_BACKOFF_SECONDS) - 1) + 1]

\* C8: the wait after failed attempt k is the backoff-table entry at
\* min(k, table length - 1), except that a 429 with an integer Retry-After waits
\* the header value, for that attempt only; and a call answered 429, 429, 200
\* returns the 200 payload after exactly two sleeps.
C8_Backoff ==
    LET n == Len(served)
    IN  /\ \A i \in DOMAIN sleeps : sleeps[i] = ExpectedWait(i)
        /\ callPc = "sleep" => sleepArg = ExpectedWait(n)
        /\ (/\ CallEnded
            /\ Is429(served[1])
            /\ n >= 2 => Is429(served[2])
            /\ n >= 3 => Success(served[3]))
           => /\ n = 3
              /\ callResult = Returned(served[3].body.payload)
              /\ Len(sleeps) = 2

\* C9: a protocol/shape error in an answer with a non-error status is never
\* retried: the call raises APIError after that request, without a sleep after
\* it, on whatever attempt it occurs.
C9_ShapeErrors ==
    LET n == Len(served)
    IN  \A i \in 1..n :
            ShapeError(served[i]) =>
                /\ i = n
                /\ callPc = "raised"
                /\ callResult.kind = "APIError"
                /\ Len(sleeps) = i - 1

-----------------------------------------------------------------------------
(* Claims about fetch_region_resources (checked under SpecFetch) *)

\* C10: pages are requested in sequence, the first request without a token and
\* the request for page i + 1 with the token of page i; the loop goes on exactly
\* while a (non-empty) token is returned and stops at the first page without
\* one; the returned map is the union of the entries of all pages fetched, a
\* name on several pages having the status of the latest of them.
C10_Pagination ==
    /\ fetchPc = "calling" =>
           /\ page = pagesServed + 1
           /\ argsToken = IF pagesServed = 0 THEN None ELSE lastToken
           /\ pagesServed >= 1 => Truthy(lastToken)
    /\ fetchPc = "returned" =>
           /\ pagesServed = page
           /\ ~Truthy(lastToken)
           /\ fetchResult.kind = "return"
           /\ Keys(fetchResult.value) = DOMAIN latest
           /\ \A n \in DOMAIN latest : Get(fetchResult.value, n) = latest[n]
    /\ (pagesServed >= 1 /\ pagesServed < MAX_PAGES /\ Truthy(lastToken)) =>
           fetchPc \in {"loop", "calling", "raised"}
    /\ (fetchPc = "raised" /\ pagesServed < MAX_PAGES) => fetchResult.msg # "Exceeded maximum pages"

\* three pages were fetched, the second sent with token "t1" and the third with
\* "t2"; "A" was Available on an earlier page and Planned on the latest one
C10_Witness ==
    /\ fetchPc = "returned"
    /\ pagesServed = 3
    /\ argsToken = Some(<<"t", "2">>)
    /\ Keys(fetchResult.value) = FETCH_NAMES
    /\ fetchResult.value[1] = [name |-> <<65>>, status |-> "isPlannedIn"]

\* C11: a server that returns a token on every page is asked for exactly
\* MAX_PAGES pages and then the call raises APIError naming the resource type and
\* the region, never returning a truncated map; that error is raised in no other
\* case; when the page at the ceiling carries no token the call returns all the
\* pages merged.
C11_PageCeiling ==
    /\ pagesServed <= MAX_PAGES
    /\ (pagesServed = MAX_PAGES /\ Truthy(lastToken)) =>
           /\ fetchPc = "raised"
           /\ fetchResult.kind = "APIError"
           /\ fetchResult.msg = "Exceeded maximum pages"
           /\ fetchResult.code = 100
           /\ fetchResult.resource_type = resource_type
           /\ fetchResult.region = region
    /\ (fetchPc = "raised" /\ fetchResult.msg = "Exceeded maximum pages") =>
           pagesServed = MAX_PAGES /\ Truthy(lastToken)
    /\ (pagesServed = MAX_PAGES /\ ~Truthy(lastToken) /\ fetchPc # "raised") =>
           /\ fetchPc = "returned"
           /\ fetchResult.kind = "return"
           /\ Keys(fetchResult.value) = DOMAIN latest
           /\ \A n \in DOMAIN latest : Get(fetchResult.value, n) = latest[n]

\* the hundredth page came with a token and the call has raised, both names
\* having been merged on the way
C11_Witness ==
    /\ fetchPc = "raised"
    /\ fetchResult.msg = "Exceeded maximum pages"
    /\ pagesServed = 100
    /\ DOMAIN latest = FETCH_NAMES

\* C12: a payload that lacks "content", lacks "content.result" or lacks the key
\* of the resource type makes the fetch raise APIError; it is never taken for
\* an empty or partial result.
C12_Validation ==
    malformed => fetchPc = "raised" /\ fetchResult.kind = "APIError"

-----------------------------------------------------------------------------
(* Claims about the state store (checked under SpecStore) *)

\* a load_region_state or load_global_state call has ended
Loaded ==
    /\ storePc \in {"done", "loaded"}
    /\ \/ op.name = "load_global_state"
       \/ op.name = "load_region_state" /\ validate_region_name(op.region).ok

\* the disk is as it was when the call began
DiskUntouched == fs = fsBefore /\ dirExists = dirBefore

\* C13: a load of a state file that is absent, or whose text is not valid
\* JSON, returns the empty state without raising, and leaves the disk as it was.
C13_LoadEmpty ==
    (Loaded /\ (state_file \notin DOMAIN fsBefore
                   \/ fsBefore[state_file].kind = "invalid")) =>
        /\ opResult = LoadReturned(EmptyState)
        /\ DiskUntouched

\* load_region_state("us") has returned from a file that is not JSON, next to
\* a regions.json
C13_Witness ==
    /\ Loaded
    /\ op.name = "load_region_state"
    /\ state_file \in DOMAIN fsBefore
    /\ fsBefore[state_file].kind = "invalid"
    /\ get_global_state_file \in DOMAIN fs
    /\ opResult.kind = "return"

\* C14: a load of a state file that is present but does not hold the expected
\* structure (text that is not JSON, or JSON that is not an object) returns the
\* empty state and raises nothing.
C14_CorruptionTolerated ==
    (Loaded /\ state_file \in DOMAIN fsBefore
            /\ fsBefore[state_file].kind \in {"invalid", "nonobject"}) =>
        opResult = LoadReturned(EmptyState)

\* a save_region_state call for a valid region has returned and the state of
\* that region has been loaded after it
SavedAndLoaded ==
    /\ storePc = "loaded"
    /\ op.name = "save_region_state"
    /\ opResult.kind = "return"

\* C16: after save_region_state has returned, load_region_state of the same
\* region returns, without error, a state with exactly the resource maps of the
\* saved dict, each equal to the saved one, and the stamps of that save;
\* nothing of the file's previous content is left.
C16_RoundTrip ==
    SavedAndLoaded =>
        /\ again.kind = "return"
        /\ \A t \in TYPE_KEYS :
              /\ again.state.maps[t].has = op.state.maps[t].has
              /\ DictEq(again.state.maps[t].d, op.state.maps[t].d)
        /\ again.state.version = [has |-> TRUE, v |-> 1]
        /\ again.state.updated = op.state.updated
        /\ fs[state_file] = dumps(op.state)

\* {"product": {AW, A}} was saved over a us.json that held "product" and "api"
\* maps: the load returns "product" alone, its keys in sorted order now
C16_Witness ==
    /\ SavedAndLoaded
    /\ state_file \in DOMAIN fsBefore
    /\ fsBefore[state_file].state.maps["api"].has
    /\ ~again.state.maps["api"].has
    /\ op.state.maps["product"].d = MAP_AW_A
    /\ again.state.maps["product"].d # MAP_AW_A

\* a save_region_state (of a valid region) or save_global_state call is under
\* way or has ended
Saving ==
    /\ storePc \in {"write", "rename", "except", "done", "loaded"}
    /\ \/ op.name = "save_global_state"
       \/ op.name = "save_region_state" /\ validate_region_name(op.region).ok

\* the target file is what it was when the save began: absent, or the same
\* content
TargetAsBefore ==
    IF state_file \in DOMAIN fsBefore
    THEN state_file \in DOMAIN fs /\ fs[state_file] = fsBefore[state_file]
    ELSE state_file \notin DOMAIN fs

\* the target file holds the whole text of the saved dict
TargetNew == state_file \in DOMAIN fs /\ fs[state_file] = dumps(op.state)

\* C17: at every step of a save, a failed temporary write and a failed rename
\* included, the target file is its complete previous content (or absent) or
\* the complete new content, never a part of a text; it is the new content when
\* the save returns and the previous one when it raises; when it raises, the
\* temporary file is gone; no other file is changed.
C17_AtomicSave ==
    Saving =>
        /\ TargetAsBefore \/ TargetNew
        /\ state_file \in DOMAIN fs => fs[state_file].kind # "partial"
        /\ (storePc \in {"done", "loaded"} /\ opResult.kind = "return") =>
               TargetNew /\ tmp_file \notin DOMAIN fs
        /\ (storePc \in {"done", "loaded"} /\ opResult.kind = "raise") =>
               TargetAsBefore /\ tmp_file \notin DOMAIN fs
        /\ \A q \in (DOMAIN fs \cup DOMAIN fsBefore) \ {state_file, tmp_file} :
               q \in DOMAIN fs /\ q \in DOMAIN fsBefore /\ fs[q] = fsBefore[q]

\* a save over an existing us.json, next to a temporary file left by a killed
\* run, has failed: us.json is as before and the temporary file is gone
C17_Witness ==
    /\ Saving
    /\ storePc = "done"
    /\ opResult = StoreRaised("OSError")
    /\ state_file \in DOMAIN fs
    /\ fs[state_file].kind = "object"
    /\ fs[state_file] # dumps(op.state)
    /\ tmp_file \in DOMAIN fsBefore

\* a load_region_state or save_region_state call has passed the validation of
\* its region, or has ended
RegionCall ==
    /\ storePc \in {"write", "rename", "except", "done", "loaded"}
    /\ op.name \in {"load_region_state", "save_region_state"}

\* the identifier has "..", "/" or a backslash in it, or is not its own base
\* name
Unsafe(rg) ==
    \/ \E i \in 1..Len(rg) : rg[i] \in {"/", "\\"}
    \/ \E i \in 1..(Len(rg) - 1) : rg[i] = "." /\ rg[i + 1] = "."
    \/ path_name(rg) # rg

\* C18: validate_region_name raises ValueError, naming the identifier, for
\* every identifier with "..", "/" or a backslash in it or that is not its own
\* base name, and returns every other identifier unchanged; the state file of a
\* region is state_dir/<region>.json, which is where a save puts the state.
C18_Validation ==
    RegionCall =>
        LET v == validate_region_name(op.region)
        IN  /\ v.value = op.region
            /\ Unsafe(op.region) <=> (~v.ok /\ v.exc = "ValueError")
            /\ Unsafe(op.region) => opResult = StoreRaised("ValueError")
            /\ ~Unsafe(op.region) =>
                   /\ v.ok
                   /\ opResult.exc # "ValueError"
                   /\ get_state_file(op.region) = op.region \o <<".json">>
                   /\ (op.name = "save_region_state" /\ opResult.kind = "return") =>
                          /\ (op.region \o <<".json">>) \in DOMAIN fs
                          /\ fs[op.region \o <<".json">>] = dumps(op.state)

\* the state of the region "a.b" has been saved to a.b.json
C18_Witness ==
    /\ RegionCall
    /\ op.name = "save_region_state"
    /\ op.region = <<"a", ".", "b">>
    /\ opResult.kind = "return"
    /\ <<"a", ".", "b", ".json">> \in DOMAIN fs

\* C19: for a rejected region identifier, load_region_state and
\* save_region_state raise the validation error and leave the disk as it was:
\* no directory made, no file made, written, renamed or removed.
C19_NoAccess ==
    (RegionCall /\ Unsafe(op.region)) =>
        /\ opResult = StoreRaised("ValueError")
        /\ DiskUntouched

-----------------------------------------------------------------------------
(* Claims about a run of main (checked under SpecMain) *)

\* the latest load read a file holding an object whose "_schema_version" is
\* not 1, a missing one counting as 0
MismatchLoaded ==
    /\ lastLoaded.present
    /\ lastLoaded.content.kind = "object"
    /\ (IF lastLoaded.content.state.version.has
        THEN lastLoaded.content.state.version.v ELSE 0) # 1

\* C15: when a state file holds an object whose "_schema_version" is not the
\* supported version (a missing field counting as 0), its load raises
\* NotImplementedError, the run ends with exit code 2, and the file is what it
\* was when the run began.
C15_SchemaMismatch ==
    MismatchLoaded =>
        /\ mainPc = "exited"
        /\ raisedExc = "NotImplementedError"
        /\ exitCode = 2
        /\ lastLoaded.path \in DOMAIN fs
        /\ fs[lastLoaded.path] = lastLoaded.content
        /\ fsStart[lastLoaded.path] = lastLoaded.content

\* the run saved the global region list and then ended on the version 2 of
\* us.json
C15_Witness ==
    /\ MismatchLoaded
    /\ lastLoaded.path = <<"u", "s", ".json">>
    /\ lastLoaded.content.state.version.v = 2
    /\ fs # fsStart
    /\ exitCode = 2

\* C20: the exit code is 0 exactly when the run completes and no change was
\* detected, 1 exactly when it completes and the map fetched for at least one
\* entity with a previous snapshot (not on its first run) differs from that
\* snapshot, and 2 exactly when an exception ends the run; there is no other
\* exit code, and none before the run ends.
C20_ExitCode ==
    /\ exitCode \in {-1, 0, 1, 2}
    /\ (exitCode = -1) <=> (mainPc # "exited")
    /\ mainPc = "exited" =>
           /\ (exitCode = 0) <=> (raisedExc = "" /\ ~detected)
           /\ (exitCode = 1) <=> (raisedExc = "" /\ detected)
           /\ (exitCode = 2) <=> (raisedExc # "")
           /\ raisedExc = "" => (ri > Len(args.regions) \/ per_region_types = <<>>)

\* a completed run with exit code 1: the products of "us" changed, its APIs
\* were on their first run
C20_Witness ==
    /\ mainPc = "exited"
    /\ exitCode = 1
    /\ raisedExc = ""
    /\ args.type = <<"product", "api">>
    /\ args.regions = <<<<"u", "s">>>>
    /\ item(item(is_first_run, <<"u", "s">>), "api")
    /\ ~item(item(is_first_run, <<"u", "s">>), "product")
    /\ has_changes(item(item(results, <<"u", "s">>), "product"))

-----------------------------------------------------------------------------
(* Specification SpecGroup: group_apis_by_service applied to every list of *)
(* names, and the renderer's listing of the groups                         *)

\* the names "S+a" and "B"
NAME_S_A == <<83, PLUS, 97>>
NAME_B == <<66>>

\* the longest list of items
MaxItems == 3

\* the names "S+b", "S+a", "T+a+b", "x" and "B"
GROUP_NAMES ==
    {<<83, PLUS, 98>>, NAME_S_A, <<84, PLUS, 97, PLUS, 98>>, <<120>>, NAME_B}

InitGroup ==
    /\ CmpIdle
    /\ CallIdle
    /\ FetchIdle
    /\ StoreIdle
    /\ MainIdle
    /\ \E n \in 0..MaxItems : items \in [1..n -> GROUP_NAMES]
    /\ groups = <<>>
    /\ listed = <<>>
    /\ groupPc = "call"

NextGroup ==
    \/ GroupApis /\ UNCHANGED <<posted, cmpVars, callVars, fetchVars, storeVars, mainVars>>
    \/ ListApis /\ UNCHANGED <<posted, cmpVars, callVars, fetchVars, storeVars, mainVars>>

SpecGroup == InitGroup /\ [][NextGroup]_vars

-----------------------------------------------------------------------------
(* Specification SpecTerminate: fetch_region_resources against a server    *)
(* that answers every request, with the requests counted                   *)

\* the answers of the server: a page with a token, a last page, 400, 429
\* with a negative Retry-After header, and no answer within the timeout
TERMINATE_RESPONSES ==
    {Http(200, None, GoodBody([NoPayload EXCEPT !.content = TRUE, !.result = TRUE,
                                                !.token = Some(<<"t", "1">>)])),
     Http(200, None, GoodBody([NoPayload EXCEPT !.content = TRUE, !.result = TRUE])),
     Http(400, None, NoBody), Http(429, Some(<<"-", "3">>), NoBody), Timeout}

InitTerminate ==
    /\ InitFetch
    /\ resource_type = "product"

NextTerminate ==
    \/ FetchRequest /\ UNCHANGED <<posted, groupVars, cmpVars, storeVars, mainVars>>
    \/ \E r \in TERMINATE_RESPONSES :
          /\ FetchPost(r)
          /\ posted' = posted + 1
          /\ UNCHANGED <<groupVars, cmpVars, storeVars, mainVars>>
    \/ FetchSleep /\ UNCHANGED <<posted, groupVars, cmpVars, storeVars, mainVars>>

\* every request is answered or times out (line 201: timeout=60)
\* and every sleep ends: the single thread of control always takes its next
\* step
SpecTerminate == InitTerminate /\ [][NextTerminate]_vars /\ WF_vars(NextTerminate)

-----------------------------------------------------------------------------
(* Specification SpecRender: format_markdown_report and format_json_report *)
(* applied to results, is_first_run, region_changes and region_first_run   *)

\* changes dicts: empty; one entry added; one entry changed and nothing
\* else; entries added, removed and changed
RENDER_CHANGES ==
    {NoChanges,
     [added |-> <<[name |-> NAME_S_A, status |-> "isPlannedIn"]>>, removed |-> <<>>,
      changed |-> <<>>],
     [added |-> <<>>, removed |-> <<>>,
      changed |-> <<[name |-> NAME_B, old_status |-> "isPlannedIn",
                     new_status |-> "isAvailableIn"]>>],
     [added |-> <<[name |-> NAME_S_A, status |-> "isAvailableIn"]>>,
      removed |-> <<NAME_B>>,
      changed |-> <<[name |-> <<65>>, old_status |-> "isPlannedIn",
                     new_status |-> "custom"]>>]}

\* what main has for a resource type of a region: its changes and its
\* first-run flag
RENDER_ENTITIES == [changes : RENDER_CHANGES, first_run : BOOLEAN]

\* what main has for a region: its id and, in the order of args.type, what
\* it has for its resource types
RenderRegions(rg, types) ==
    {[k |-> rg, v |-> [i \in DOMAIN types |-> [k |-> types[i], v |-> x[i]]]] :
        x \in [DOMAIN types -> RENDER_ENTITIES]}

\* the loop's outcome for no region, for "us", for "us" and "eu"
RENDER_INPUTS ==
    LET us == RenderRegions(<<"u", "s">>, <<"product">>)
                  \cup RenderRegions(<<"u", "s">>, <<"api", "product">>)
        eu == RenderRegions(<<"e", "u">>, <<"product">>)
    IN  {<<>>} \cup {<<x>> : x \in us} \cup {<<x, y>> : x \in us, y \in eu}

\* the dict of the changes, and the dict of the flags, of a loop's outcome
results_of(input) ==
    [i \in DOMAIN input |->
        [k |-> input[i].k,
         v |-> [j \in DOMAIN input[i].v |->
                   [k |-> input[i].v[j].k, v |-> input[i].v[j].v.changes]]]]
is_first_run_of(input) ==
    [i \in DOMAIN input |->
        [k |-> input[i].k,
         v |-> [j \in DOMAIN input[i].v |->
                   [k |-> input[i].v[j].k, v |-> input[i].v[j].v.first_run]]]]

InitRender ==
    /\ GroupIdle
    /\ CmpIdle
    /\ CallIdle
    /\ FetchIdle
    /\ StoreIdle
    /\ \E input \in RENDER_INPUTS :
          /\ results = results_of(input)
          /\ is_first_run = is_first_run_of(input)
    /\ region_changes \in {NoRegionChanges} \cup {Some(c) : c \in RENDER_CHANGES}
    /\ region_first_run \in BOOLEAN
    /\ args \in [type : {<<>>}, regions : {<<>>}, format : {"json", "markdown"}]
    /\ mainPc = "region"
    /\ any_changes = FALSE
    /\ current_regions = <<>>
    /\ global_state = EmptyState
    /\ state = EmptyState
    /\ ri = 1
    /\ ti = 1
    /\ stdout = NoReport
    /\ exitCode = -1
    /\ detected = FALSE
    /\ raisedExc = ""
    /\ lastLoaded = NotLoaded
    /\ fsStart = <<>>
    /\ region_names = <<>>
    /\ rj = 1
    /\ lk = 1
    /\ displays = <<>>
    /\ report = NoReport
    /\ requests = 0
    /\ fetched = <<>>
    /\ savedPasses = {}
    /\ run = 1
    /\ baselined = {}

NextRender ==
    \/ \E o \in NAMES_OUTCOMES \cup {Cached} :
          GetRegionNames(o) /\ UNCHANGED <<posted, groupVars, cmpVars, callVars, fetchVars, storeCallVars>>
    \/ Report /\ UNCHANGED <<posted, groupVars, cmpVars, callVars, fetchVars, storeCallVars>>

SpecRender == InitRender /\ [][NextRender]_vars

-----------------------------------------------------------------------------
(* Specification SpecRuns: main run again over the state directory the     *)
(* run before it left                                                      *)

\* the state file of a fetch of the run
file_of(f) == IF f.pass = 0 THEN get_global_state_file ELSE f.region \o <<".json">>

\* history: the maps the run that is over has fetched and saved, each with
\* the flag the run gave it
Baselines ==
    {[file |-> file_of(fetched[i]), type |-> fetched[i].type,
      first_run |-> (fetched[i].previous = <<>>), value |-> fetched[i].value] :
        i \in {j \in DOMAIN fetched : fetched[j].pass \in savedPasses}}

\* lines 827-850: main is run again with the same arguments, over the state
\* directory as the run before left it; the cache of region names is of the
\* process and starts empty
NextRun ==
    /\ mainPc = "exited"
    /\ run < MaxRuns
    /\ run' = run + 1
    /\ baselined' = Baselines
    /\ mainPc' = IF track_regions THEN "global_fetch" ELSE "region"
    /\ results' = <<>>
    /\ is_first_run' = <<>>
    /\ any_changes' = FALSE
    /\ region_changes' = NoRegionChanges
    /\ region_first_run' = FALSE
    /\ current_regions' = <<>>
    /\ global_state' = EmptyState
    /\ state' = EmptyState
    /\ ri' = 1
    /\ ti' = 1
    /\ stdout' = NoReport
    /\ exitCode' = -1
    /\ detected' = FALSE
    /\ raisedExc' = ""
    /\ lastLoaded' = NotLoaded
    /\ fsStart' = fs
    /\ region_names' = <<>>
    /\ rj' = 1
    /\ lk' = 1
    /\ displays' = <<>>
    /\ report' = NoReport
    /\ requests' = 0
    /\ fetched' = <<>>
    /\ savedPasses' = {}
    /\ UNCHANGED <<args, fs, dirExists>>

\* one region, with or without the global list, over an empty directory or
\* one with a snapshot of the region
InitRuns ==
    /\ InitMain
    /\ args.regions = <<<<"u", "s">>>>
    /\ args.type \in {<<"product">>, <<"region", "api", "product">>}
    /\ fs = <<>> \/ DOMAIN fs = {get_state_file(<<"u", "s">>)}
    /\ \A q \in DOMAIN fs : fs[q].kind = "object" /\ fs[q].state.version.v = 1

NextRuns ==
    \/ NextMain
    \/ NextRun /\ UNCHANGED <<posted, groupVars, cmpVars, callVars, fetchVars, storeCallVars>>

SpecRuns == InitRuns /\ [][NextRuns]_vars

-----------------------------------------------------------------------------
(* The report and the state over a run                                     *)

\* every pass of the run, that of the global list (0) and those of the
\* regions, has saved its state
AllSaved ==
    /\ track_regions => 0 \in savedPasses
    /\ per_region_types # <<>> => \A i \in 1..Len(args.regions) : i \in savedPasses

\* C21: a run that ends with exit code 2 has written nothing to stdout, and
\* a report is on stdout only when the run is over without an exception,
\* after every fetch, load, compare and save of it and after the renderer
\* returned.
C21_ReportLast ==
    /\ exitCode = EXIT_ERROR => stdout = NoReport
    /\ stdout.text =>
           /\ mainPc = "exited" /\ raisedExc = "" /\ exitCode \in {EXIT_SUCCESS, EXIT_CHANGES}
           /\ AllSaved
           /\ stdout = report
           /\ args.format = "markdown" => rj > Len(results)

\* a run that found changes and saved them, and whose renderer failed in a
\* lookup of the region names: exit code 2, nothing on stdout
C21_Witness ==
    /\ mainPc = "exited" /\ exitCode = EXIT_ERROR
    /\ detected /\ requests > 0 /\ AllSaved
    /\ ri > Len(args.regions)
    /\ stdout = NoReport

\* the i-th fetch of the run is the last one of its map in its file
Latest(i) ==
    \A j \in (i + 1)..Len(fetched) :
        file_of(fetched[j]) # file_of(fetched[i]) \/ fetched[j].type # fetched[i].type

\* the state file of the fetch f holds, as an object, the map it fetched
Persisted(f) ==
    /\ file_of(f) \in DOMAIN fs
    /\ fs[file_of(f)].kind = "object"
    /\ fs[file_of(f)].state.maps[f.type].has
    /\ DictEq(fs[file_of(f)].state.maps[f.type].d, f.value)

\* the file at path is what it was when the run began
AsAtStart(path) ==
    IF path \in DOMAIN fsStart THEN path \in DOMAIN fs /\ fs[path] = fsStart[path]
    ELSE path \notin DOMAIN fs

\* C22: when a run ends with exit code 2, for another reason than a save
\* that failed, the map of every fetch that had completed is in its state
\* file, and the state file of every region the loop had not reached, no
\* completed fetch being for that file, is what it was when the run began.
C22_PersistedPerEntity ==
    (mainPc = "exited" /\ exitCode = EXIT_ERROR /\ raisedExc # "OSError") =>
        /\ \A i \in DOMAIN fetched : Latest(i) => Persisted(fetched[i])
        /\ \A i \in (ri + 1)..Len(args.regions) :
               (/\ validate_region_name(args.regions[i]).ok
                /\ \A j \in DOMAIN fetched :
                       file_of(fetched[j]) # get_state_file(args.regions[i]))
               => AsAtStart(get_state_file(args.regions[i]))

\* the i-th fetch of the run differs from its baseline and was saved as the
\* new baseline
Absorbed(i) ==
    /\ Differs(fetched[i].previous, fetched[i].value)
    /\ fetched[i].pass \in savedPasses

\* C23: a run that has emitted no report has put no change into a baseline:
\* when the run is over with nothing on stdout, no map that differs from its
\* baseline has been saved in place of it (such a change would be in the
\* report of no run).
C23_NothingLost ==
    (mainPc = "exited" /\ ~stdout.text) => \A i \in DOMAIN fetched : ~Absorbed(i)

\* the state file of the fetch f carries the current schema version
Versioned(f) ==
    /\ file_of(f) \in DOMAIN fs
    /\ fs[file_of(f)].state.version = [has |-> TRUE, v |-> STATE_SCHEMA_VERSION]

\* C24: after a run that ended with exit code 0 or 1, the state file of
\* every map fetched in the run (of a region and resource type, or of the
\* global region list) is a JSON object that holds exactly the map fetched,
\* by the last fetch of it, with no other entry, and the current schema
\* version.
C24_SnapshotReplaced ==
    (mainPc = "exited" /\ exitCode \in {EXIT_SUCCESS, EXIT_CHANGES}) =>
        \A i \in DOMAIN fetched :
            /\ fetched[i].pass \in savedPasses
            /\ Versioned(fetched[i])
            /\ Latest(i) => Persisted(fetched[i])

\* a completed run in which a fetch returned a map without an entry the
\* previous snapshot had, and with an entry it did not have
C24_Witness ==
    /\ mainPc = "exited" /\ exitCode = EXIT_CHANGES
    /\ \E i \in DOMAIN fetched :
           /\ \E x \in Keys(fetched[i].previous) : x \notin Keys(fetched[i].value)
           /\ fetched[i].value # <<>>
           /\ Latest(i) /\ Persisted(fetched[i])

\* the run has taken the map v as the previous one of its i-th fetch: the
\* entity is not flagged as on its first run and its changes are those from
\* v to the map fetched
DiffedAgainst(i, v) ==
    LET f == fetched[i]
    IN  IF f.pass = 0
        THEN /\ ~region_first_run
             /\ region_changes = Some(compare_states(v, f.value))
        ELSE /\ ~item(item(is_first_run, f.region), f.type)
             /\ item(item(results, f.region), f.type) = compare_states(v, f.value)

\* C25: an entity on its first run has no section in the report and does
\* not make the exit code 1, its fetched map is in its state file when the
\* run completes, and the next run compares what it fetches for the entity
\* with that map.
C25_FirstRunBaseline ==
    /\ stdout.text =>
           /\ region_first_run => ~stdout.global.shown
           /\ \A i \in DOMAIN stdout.sections :
                  \A j \in DOMAIN stdout.sections[i].types :
                      ~first_run_of(is_first_run, stdout.sections[i].region,
                                    stdout.sections[i].types[j].type)
    /\ exitCode = EXIT_CHANGES =>
           \E i \in DOMAIN fetched : Differs(fetched[i].previous, fetched[i].value)
    /\ (mainPc = "exited" /\ exitCode \in {EXIT_SUCCESS, EXIT_CHANGES}) =>
           \A i \in DOMAIN fetched : fetched[i].previous = <<>> => Persisted(fetched[i])
    /\ \A i \in DOMAIN fetched : \A b \in baselined :
           (b.first_run /\ b.file = file_of(fetched[i]) /\ b.type = fetched[i].type)
           => DiffedAgainst(i, b.value)

-----------------------------------------------------------------------------
(* The renderers                                                           *)

\* the renderer has returned
Rendered == mainPc = "exited" /\ raisedExc = ""

\* every resource type of every region of results is flagged as first run
AllFirstRun ==
    \A i \in DOMAIN results : \A j \in DOMAIN results[i].v :
        item(item(is_first_run, results[i].k), results[i].v[j].k)

\* no changes of the global region list are given, or the list is on its
\* first run
NoGlobalChanges == ~region_changes.some \/ region_first_run

\* C26: when every entity of results is flagged as first run and there are
\* no global region changes (none given, or the global list on its first
\* run), the renderer of either format returns the empty string.
C26_FirstRunEmpty ==
    (Rendered /\ AllFirstRun /\ NoGlobalChanges) => (report = NoReport /\ stdout = NoReport)

\* the markdown renderer has returned the empty string for two regions whose
\* entities, flagged as first run, carry changes, and for changes of the
\* global list on its first run
C26_Witness ==
    /\ Rendered /\ AllFirstRun /\ NoGlobalChanges
    /\ args.format = "markdown"
    /\ Len(results) = 2
    /\ \A i \in DOMAIN results : \E j \in DOMAIN results[i].v :
           has_changes(results[i].v[j].v)
    /\ region_changes.some /\ has_changes(region_changes.v)
    /\ report = NoReport

\* the block of the global region list of a document lists an entry
GlobalEntryShown(doc) == doc.global.added # <<>> \/ doc.global.removed # <<>>

\* the section of a resource type lists an entry
EntryShown(section) ==
    section.added # <<>> \/ section.changed # <<>> \/ section.removed # <<>>

\* C27: a report that is not empty shows at least one added, removed or
\* changed entry; it has no section for an entity flagged as first run or
\* with an empty changes dict, no region without a section, no section
\* without an entry, and no block of the global region list without an
\* entry.
C27_NoContentlessReport ==
    Rendered =>
        /\ report.text =>
               \/ GlobalEntryShown(report)
               \/ \E i \in DOMAIN report.sections :
                      \E j \in DOMAIN report.sections[i].types :
                          EntryShown(report.sections[i].types[j])
        /\ \A i \in DOMAIN report.sections :
               /\ report.sections[i].types # <<>>
               /\ \A j \in DOMAIN report.sections[i].types :
                      LET rg == report.sections[i].region
                          t  == report.sections[i].types[j].type
                      IN  /\ ~item(item(is_first_run, rg), t)
                          /\ has_changes(item(item(results, rg), t))
                          /\ EntryShown(report.sections[i].types[j])
        /\ report.global.shown => GlobalEntryShown(report)

\* C28: in one run the lookups of region names make at most one
\* list-regions request, whatever the first response held and however many
\* regions are rendered.
C28_OneRequest == requests <= 1

\* the place of the first "+" of a name that has one
FirstPlus(name) ==
    CHOOSE j \in DOMAIN name : name[j] = PLUS /\ \A h \in 1..(j - 1) : name[h] # PLUS

\* the group a name belongs to and the entry it gives: what is before and
\* after its first "+", or the catch-all group and the name itself
GroupOf(name) ==
    IF \E j \in DOMAIN name : name[j] = PLUS
    THEN SubSeq(name, 1, FirstPlus(name) - 1)
    ELSE OTHER_GROUP
EntryOf(name) ==
    IF \E j \in DOMAIN name : name[j] = PLUS
    THEN SubSeq(name, FirstPlus(name) + 1, Len(name))
    ELSE name

\* how many times x is in the list s
Count(s, x) == Cardinality({i \in DOMAIN s : s[i] = x})

\* the dict returned has one key per group of the items, and in each group
\* every entry as many times as the items give it, in the order of the items
GroupedRight ==
    /\ \A i, j \in DOMAIN groups : groups[i].k = groups[j].k => i = j
    /\ {groups[i].k : i \in DOMAIN groups} = {GroupOf(items[j]) : j \in DOMAIN items}
    /\ \A i \in DOMAIN groups :
           LET mine == SelectSeq(items, LAMBDA n : GroupOf(n) = groups[i].k)
           IN  groups[i].v = [p \in DOMAIN mine |-> EntryOf(mine[p])]

\* the listing has the groups in ascending order of service name, each with
\* its entries in sorted order, none lost and none twice, and is the listing
\* of the same items given in sorted order
ListedRight ==
    /\ Len(listed) = Len(groups)
    /\ \A i \in 1..(Len(listed) - 1) : StrLess(listed[i].service, listed[i + 1].service)
    /\ \A i \in DOMAIN listed :
           /\ \E j \in DOMAIN groups : groups[j].k = listed[i].service
           /\ \A p \in 1..(Len(listed[i].operations) - 1) :
                  ~StrLess(listed[i].operations[p + 1], listed[i].operations[p])
           /\ \A j \in DOMAIN items :
                  GroupOf(items[j]) = listed[i].service =>
                      Count(listed[i].operations, EntryOf(items[j]))
                          = Count(item(groups, listed[i].service), EntryOf(items[j]))
           /\ Len(listed[i].operations) = Len(item(groups, listed[i].service))
    /\ listed = api_lines(sorted_list(items))

\* C29: group_apis_by_service splits every name with a "+" at its first
\* "+" and puts every name without one in the catch-all group, each entry
\* once per item; the markdown renderer lists the groups in sorted order of
\* service name and the entries of each group in sorted order, whatever the
\* order of the items.
C29_Grouping ==
    /\ groupPc \in {"grouped", "listed"} => GroupedRight
    /\ groupPc = "listed" => ListedRight

\* items out of order, one with two "+" and one without any, grouped and
\* listed
C29_Witness ==
    /\ groupPc = "listed"
    /\ items = <<<<83, PLUS, 98>>, <<84, PLUS, 97, PLUS, 98>>, NAME_S_A>>
    /\ listed = <<[service |-> <<83>>, operations |-> <<<<97>>, <<98>>>>],
                  [service |-> <<84>>, operations |-> <<<<97, PLUS, 98>>>>]>>

\* C30: a run that completes exits with 1 exactly when it has written a
\* report to stdout and with 0 exactly when it has written nothing, for
\* every list of regions and either format.
C30_ExitMatchesReport ==
    (mainPc = "exited" /\ raisedExc = "") =>
        /\ (exitCode = EXIT_CHANGES) <=> stdout.text
        /\ (exitCode = EXIT_SUCCESS) <=> ~stdout.text

-----------------------------------------------------------------------------
(* Runs after runs                                                         *)

\* when the run began, the state file of its i-th fetch was a JSON object
\* with a map, empty or not, for the resource type fetched
SnapshotAtStart(i) ==
    LET path == file_of(fetched[i])
    IN  /\ path \in DOMAIN fsStart
        /\ fsStart[path].kind = "object"
        /\ fsStart[path].state.maps[fetched[i].type].has

\* the run has flagged the entity of its i-th fetch as on its first run
FlaggedFirstRun(i) ==
    IF fetched[i].pass = 0 THEN region_first_run
    ELSE item(item(is_first_run, fetched[i].region), fetched[i].type)

\* C31: a run flags an entity as on its first run exactly when no snapshot
\* of it was persisted before the run; when one was, an empty map included,
\* the run compares what it fetches with it and has every entry that
\* appeared since as added.
C31_FirstRunIffNeverPersisted ==
    \A i \in DOMAIN fetched :
        /\ FlaggedFirstRun(i) <=> ~SnapshotAtStart(i)
        /\ SnapshotAtStart(i) =>
               DiffedAgainst(i, fsStart[file_of(fetched[i])].state.maps[fetched[i].type].d)

\* the run before this one has saved a map for the global list, when it is
\* tracked, and for every resource type of every region
PreviousComplete ==
    /\ run >= 2
    /\ track_regions =>
           \E b \in baselined : b.file = get_global_state_file /\ b.type = "region"
    /\ \A i \in DOMAIN args.regions : \A j \in DOMAIN per_region_types :
           \E b \in baselined :
               b.file = get_state_file(args.regions[i]) /\ b.type = per_region_types[j]

\* the i-th fetch of the run has returned the map the run before had
\* fetched and saved for the same entity
SameData(i) ==
    \E b \in baselined :
        /\ b.file = file_of(fetched[i])
        /\ b.type = fetched[i].type
        /\ DictEq(b.value, fetched[i].value)

\* every state file holds the resource maps it held when the run began
MapsAsAtStart ==
    /\ DOMAIN fs = DOMAIN fsStart
    /\ \A path \in DOMAIN fs :
           /\ fs[path].kind = fsStart[path].kind
           /\ fs[path].state.maps = fsStart[path].state.maps

\* C32: in a run that follows a run which saved all its snapshots, with the
\* same regions and types, and in which every fetch returns what the run
\* before fetched, no change is detected and nothing is written to stdout;
\* when it completes, its exit code is 0, its report is empty and every
\* state file holds the resource maps the run before stored.
C32_SecondRunQuiet ==
    (PreviousComplete /\ \A i \in DOMAIN fetched : SameData(i)) =>
        /\ ~any_changes /\ ~detected
        /\ stdout = NoReport
        /\ (mainPc = "exited" /\ raisedExc = "") =>
               /\ exitCode = EXIT_SUCCESS
               /\ report = NoReport
               /\ MapsAsAtStart
               /\ \A i \in DOMAIN fetched : Persisted(fetched[i])

\* a completed second run over the global list and two resource types of a
\* region, with the data of the run before, not all of it empty
C32_Witness ==
    /\ PreviousComplete
    /\ mainPc = "exited" /\ exitCode = EXIT_SUCCESS
    /\ Len(fetched) = 3
    /\ \A i \in DOMAIN fetched : SameData(i)
    /\ \E i \in DOMAIN fetched : fetched[i].value = MAP_AW_A
    /\ \E i \in DOMAIN fetched : fetched[i].value = <<>>
    /\ MapsAsAtStart

-----------------------------------------------------------------------------
(* The files of the regions and the file of the global list                *)

\* the file of the global list is what it was before the call
GlobalFileAsBefore ==
    IF get_global_state_file \in DOMAIN fsBefore
    THEN /\ get_global_state_file \in DOMAIN fs
         /\ fs[get_global_state_file] = fsBefore[get_global_state_file]
    ELSE get_global_state_file \notin DOMAIN fs

\* C33: for every region identifier that validate_region_name accepts, the
\* state file of the region is another file than that of the global region
\* list, and a load or a save of the region's state leaves the file of the
\* global list as it was.
C33_DistinctFiles ==
    (RegionCall /\ validate_region_name(op.region).ok) =>
        /\ get_state_file(op.region) # get_global_state_file
        /\ GlobalFileAsBefore

-----------------------------------------------------------------------------
(* The renderers and the remote service                                    *)

\* the global list, when tracked, and every region have been fetched and
\* saved: what is left of the run is the report
LoopOver ==
    /\ track_regions => 0 \in savedPasses
    /\ per_region_types = <<>> \/ ri > Len(args.regions)

\* C34: the renderers make no remote request, and a run that has fetched
\* and saved all its snapshots does not end with exit code 2.
C34_RenderOffline ==
    /\ requests = 0
    /\ LoopOver => exitCode # EXIT_ERROR

-----------------------------------------------------------------------------
(* Termination                                                             *)

\* fetch_region_resources has returned a map or raised
FetchOver == fetchPc \in {"returned", "raised"}

\* the requests posted are within the bounds: those of the call in progress
\* within MAX_RETRIES, those of all calls within MAX_PAGES times MAX_RETRIES
WithinBounds ==
    /\ page \in 1..MAX_PAGES
    /\ attempt < MAX_RETRIES
    /\ Len(served) <= MAX_RETRIES
    /\ posted <= MAX_PAGES * MAX_RETRIES

\* C35: fetch_region_resources, whatever the server answers, ends by
\* returning a map or by raising, after at most MAX_PAGES * MAX_RETRIES
\* requests, and each call of call_mcp_tool in it ends after at most
\* MAX_RETRIES requests.
C35_Termination ==
    /\ []WithinBounds
    /\ <>FetchOver
    /\ [](fetchPc = "calling" => <>(fetchPc # "calling"))

\* the call has raised after MAX_PAGES * MAX_RETRIES requests: every page
\* came with a token at the last attempt
C35_Witness ==
    /\ FetchOver
    /\ posted = MAX_PAGES * MAX_RETRIES
    /\ fetchResult.msg = "Exceeded maximum pages"

-----------------------------------------------------------------------------
(* The lengths of the sleeps                                               *)

\* the last request of the call was answered with HTTP 429
Last429 ==
    /\ served # <<>>
    /\ served[Len(served)].kind = "http"
    /\ served[Len(served)].status = 429

\* C36: every length call_mcp_tool passes to time.sleep is a non-negative
\* number of seconds, for every Retry-After header that parses as an integer
\* and every attempt, and a call whose last answer was a 429 goes on to the
\* next attempt or raises the APIError of exhaustion, no other exception.
C36_SleepNonNegative ==
    /\ callPc = "sleep" => sleepArg >= 0
    /\ \A i \in DOMAIN sleeps : sleeps[i] >= 0
    /\ (Last429 /\ callPc = "raised") => callResult = Exhausted(last_error)

====
